---- MODULE Spec2Model ----
(***************************************************************************)
(* Verification model of the hanzoai/cloud LLM gateway core:               *)
(*   - ModelConfig: route / pricing / identity-prompt tables, hot reload   *)
(*     (applyConfig, Reload) and live pricing refresh (fetchLivePricing);  *)
(*   - the balance gate (getUserBalance, resolveProviderForUser);          *)
(*   - the request handlers (ChatCompletions, AnthropicMessages) and the   *)
(*     usage recorder (recordUsage).                                       *)
(*                                                                         *)
(* Strings that the code transforms (model names, identity prompts) are    *)
(* sequences of one-character strings, so that strings.ToLower,            *)
(* strings.HasPrefix, slicing and strings.TrimSpace are computed.          *)
(* Prices are integers in cents per million tokens (1.00 = 100).           *)
(* Balances are integers in cents (Commerce's "available" field).          *)
(***************************************************************************)
EXTENDS Integers, Sequences, FiniteSets, TLC

VARIABLES
    \* ---- ModelConfig (src/unnamed/part_015:623-637) ----
    routes,         \* mc.routes   : lowercase key -> modelRoute
    pricing,        \* mc.pricing  : lowercase key -> modelPrice
    prompts,        \* mc.prompts  : lowercase key -> identity prompt
    features,       \* mc.features
    defaults,       \* mc.defaults
    pricingURL,     \* mc.pricingURL
    pricingTTL,     \* mc.pricingTTL (seconds)
    pricingRefreshed, \* mc.lastPricingAt is non-zero
    aliasPricingMap,   \* the (alias, base) pairs of the file mc.pricing was built from
    mu,             \* mc.mu : [writer, readers]
    \* ---- the goroutine running Reload ----
    rlpc,           \* its position
    rlNew,          \* the tables applyConfig built, not yet swapped in
    reloadCount,    \* number of Reload calls started
    reloadFile,     \* what the last Reload call found at configPath
    reloadResult,   \* what the last Reload call returned
    \* ---- the goroutine running fetchLivePricing ----
    fpc,            \* its position
    fResp,          \* the decoded feed response
    fetchQueued,    \* fetchLivePricing goroutines spawned, not yet started
    bgRunning,      \* backgroundRefresh was started by InitModelConfig
    \* ---- one goroutine doing lookups ----
    rdpc,           \* its position
    rdKind,         \* which lookup
    rdArg,          \* the model name looked up
    rdResult,       \* the lookup's result
    rdCands,        \* results the lookup may return: one per configuration
                    \* that was in force while the lookup ran
    mcCommitted,    \* the configuration in force: the tables as of the last
                    \* release of the write lock
    \* ---- the gateway (src/controllers/openai_api.go) ----
    req,            \* the requests being served: request -> handler locals
    balanceCache,   \* balanceCache : user key -> balanceEntry
    now,            \* the clock (seconds)
    commerceEndpoint, \* conf.GetConfigString("commerceEndpoint")
    \* ---- single calls of library functions ----
    cost,           \* a call of calculateCostCents: arguments and result
    aw,             \* an AnthropicWriter and the connection it writes to
    ks,             \* the KMS client, the secret store and one provider
    zap,            \* a call of ZapDispatch: the request and the response
    bg,             \* the goroutine running backgroundRefresh, and the calls of Stop
    ip              \* a call of ChatCompletions: its messages as sent upstream

cfgVars == <<routes, pricing, prompts, features, defaults, pricingURL,
             pricingTTL, pricingRefreshed, aliasPricingMap, mu, rlpc, rlNew,
             reloadCount,
             reloadFile, reloadResult, fpc, fResp, fetchQueued,
             bgRunning, rdpc, rdKind, rdArg, rdResult, rdCands, mcCommitted>>

libVars == <<cost, aw, ks, zap, bg, ip>>

gwVars == <<req, balanceCache, now, commerceEndpoint, libVars>>

vars == <<cfgVars, gwVars>>

----------------------------------------------------------------------------
\* Bounds of the model.

\* Reload calls in one behaviour.
MaxReloads == 2
\* fetchLivePricing goroutines spawned and not yet started.
MaxQueued == 1
\* Chunks written to one AnthropicWriter.
MaxChunks == 3
\* ResolveProviderSecret calls in one behaviour.
MaxResolves == 2
\* Universal-auth logins in one behaviour.
MaxLogins == 3

----------------------------------------------------------------------------
\* Strings.

UpperChars == <<"A","B","C","D","E","F","G","H","I","J","K","L","M",
                "N","O","P","Q","R","S","T","U","V","W","X","Y","Z">>
LowerChars == <<"a","b","c","d","e","f","g","h","i","j","k","l","m",
                "n","o","p","q","r","s","t","u","v","w","x","y","z">>

ToLowerChar(c) ==
    IF \E i \in 1..Len(UpperChars) : UpperChars[i] = c
    THEN LowerChars[CHOOSE i \in 1..Len(UpperChars) : UpperChars[i] = c]
    ELSE c

\* strings.ToLower
ToLower(s) == [i \in 1..Len(s) |-> ToLowerChar(s[i])]

\* strings.HasPrefix
HasPrefix(s, p) == Len(s) >= Len(p) /\ SubSeq(s, 1, Len(p)) = p

\* s[n:]
DropPrefix(s, n) == SubSeq(s, n + 1, Len(s))

IsSpace(c) == c \in {" ", "\n", "\t"}

\* strings.TrimSpace
RECURSIVE TrimLeft(_)
TrimLeft(s) ==
    IF s # << >> /\ IsSpace(Head(s)) THEN TrimLeft(Tail(s)) ELSE s

RECURSIVE TrimRight(_)
TrimRight(s) ==
    IF s # << >> /\ IsSpace(s[Len(s)])
    THEN TrimRight(SubSeq(s, 1, Len(s) - 1))
    ELSE s

TrimSpace(s) == TrimRight(TrimLeft(s))

\* Byte order of the characters model names are made of.
ByteOrder == <<"-", "/", "0","1","2","3","4","5","6","7","8","9">>
                 \o UpperChars \o LowerChars

Ord(c) == CHOOSE i \in 1..Len(ByteOrder) : ByteOrder[i] = c

\* Go's s < t on strings.
RECURSIVE StrLess(_, _)
StrLess(s, t) ==
    IF t = << >> THEN FALSE
    ELSE IF s = << >> THEN TRUE
    ELSE IF Head(s) # Head(t) THEN Ord(Head(s)) < Ord(Head(t))
    ELSE StrLess(Tail(s), Tail(t))

\* Go maps.
EmptyMap == << >>
Put(m, k, v) == [x \in (DOMAIN m) \cup {k} |-> IF x = k THEN v ELSE m[x]]

\* All orders in which a range loop may visit a set of keys.
RECURSIVE Orders(_)
Orders(S) ==
    IF S = {} THEN { << >> }
    ELSE UNION { { <<x>> \o o : o \in Orders(S \ {x}) } : x \in S }

----------------------------------------------------------------------------
\* Model names of the universe.

gpt    == <<"g","p","t">>
GPT    == <<"G","P","T">>
zen_m  == <<"z","e","n","-","m">>
Zen_M  == <<"Z","e","n","-","M">>
zen4_m == <<"z","e","n","4","-","m">>
zen3_v == <<"z","e","n","3","-","v">>
zen_v  == <<"z","e","n","-","v">>
zen_x  == <<"z","e","n","-","x">>
o3     == <<"o","3">>

\* Names requests and lookups ask for.
LookupNames == {gpt, GPT, zen_m, Zen_M, zen4_m, zen_v, zen_x, o3}

\* Identity prompts: sequences of characters; " " and "\n" are white space.
PromptZen4Mini == <<"Z","4","m">>
PromptZen3V    == <<"Z","3","v">>
\* the generic zen prompt of GetIdentityPrompt
GenericZenPrompt == <<"Z","e","n">>

----------------------------------------------------------------------------
\* conf/models.yaml as yaml.Unmarshal decodes it (ModelConfigFile, ModelDef,
\* ModelPriceDef). A field the file omits holds Go's zero value.

NoPricing ==
    [present |-> FALSE, input |-> 0, output |-> 0,
     input_per_million |-> 0, output_per_million |-> 0]

\* pricing: { input: i, output: o }
PricingIO(i, o) ==
    [present |-> TRUE, input |-> i, output |-> o,
     input_per_million |-> 0, output_per_million |-> 0]

\* pricing: { input_per_million: i, output_per_million: o }
PricingPM(i, o) ==
    [present |-> TRUE, input |-> 0, output |-> 0,
     input_per_million |-> i, output_per_million |-> o]

ModelDef(provider, upstream, premium, hidden, ownedBy, prompt, alias, ponly, pr) ==
    [provider |-> provider, upstream |-> upstream, premium |-> premium,
     hidden |-> hidden, owned_by |-> ownedBy, identity_prompt |-> prompt,
     alias_pricing |-> alias, pricing_only |-> ponly, pricing |-> pr]

FileA ==
    [models |->
        (gpt :> ModelDef("do-ai", "openai-gpt", FALSE, FALSE, "", << >>,
                         << >>, FALSE, PricingIO(250, 1000)))
     @@ (zen4_m :> ModelDef("fireworks", "qwen3-8b", TRUE, FALSE, "hanzo",
                            <<" ">> \o PromptZen4Mini \o <<"\n">>,
                            << >>, FALSE, PricingPM(60, 60)))
     @@ (zen_m :> ModelDef("fireworks", "qwen3-8b", TRUE, TRUE, "hanzo", << >>,
                           zen4_m, FALSE, NoPricing)),
     default_pricing |-> [input_per_million |-> 0, output_per_million |-> 0],
     features |-> [live_mode |-> FALSE, premium_gate |-> TRUE, starter_credit |-> 0],
     pricing_url |-> "",
     pricing_ttl |-> ""]

FileB ==
    [models |->
        (GPT :> ModelDef("openai-direct", "gpt-direct", TRUE, FALSE, "", << >>,
                         << >>, FALSE, NoPricing))
     @@ (zen3_v :> ModelDef("fireworks", "qwen3-vl", TRUE, TRUE, "", PromptZen3V,
                            << >>, FALSE, PricingIO(30, 0))),
     default_pricing |-> [input_per_million |-> 200, output_per_million |-> 800],
     features |-> [live_mode |-> TRUE, premium_gate |-> TRUE, starter_credit |-> 1000],
     pricing_url |-> "https://pricing.hanzo.ai/",
     pricing_ttl |-> "1h"]

\* a well-formed file that declares no models
FileEmpty ==
    [models |-> EmptyMap,
     default_pricing |-> [input_per_million |-> 0, output_per_million |-> 0],
     features |-> [live_mode |-> FALSE, premium_gate |-> FALSE, starter_credit |-> 0],
     pricing_url |-> "",
     pricing_ttl |-> "soon"]

\* a well-formed file whose only entry is pricing_only
FilePricingOnly ==
    [models |->
        (gpt :> ModelDef("do-ai", "openai-gpt", FALSE, TRUE, "", << >>,
                         << >>, TRUE, PricingIO(300, 800))),
     default_pricing |-> [input_per_million |-> 0, output_per_million |-> 0],
     features |-> [live_mode |-> FALSE, premium_gate |-> TRUE, starter_credit |-> 0],
     pricing_url |-> "",
     pricing_ttl |-> ""]

\* a well-formed file with a chain of alias_pricing: zen-v takes the price of
\* zen-m, which takes the price of zen4-m
FileChain ==
    [models |->
        (zen4_m :> ModelDef("fireworks", "qwen3-8b", TRUE, FALSE, "hanzo", << >>,
                            << >>, FALSE, PricingPM(60, 60)))
     @@ (zen_m :> ModelDef("fireworks", "qwen3-8b", TRUE, FALSE, "hanzo", << >>,
                           zen4_m, FALSE, NoPricing))
     @@ (zen_v :> ModelDef("fireworks", "qwen3-vl", TRUE, FALSE, "hanzo", << >>,
                           zen_m, FALSE, NoPricing)),
     default_pricing |-> [input_per_million |-> 0, output_per_million |-> 0],
     features |-> [live_mode |-> TRUE, premium_gate |-> TRUE, starter_credit |-> 0],
     pricing_url |-> "https://pricing.hanzo.ai/",
     pricing_ttl |-> ""]

\* a well-formed file with two keys that differ in letter case only
FileCase ==
    [models |->
        (gpt :> ModelDef("do-ai", "openai-gpt", FALSE, FALSE, "", << >>,
                         << >>, FALSE, PricingIO(250, 1000)))
     @@ (GPT :> ModelDef("openai-direct", "gpt-direct", TRUE, FALSE, "", << >>,
                         << >>, FALSE, NoPricing)),
     default_pricing |-> [input_per_million |-> 0, output_per_million |-> 0],
     features |-> [live_mode |-> FALSE, premium_gate |-> TRUE, starter_credit |-> 0],
     pricing_url |-> "",
     pricing_ttl |-> ""]

\* The files InitModelConfig may find, and those a later Reload may find.
InitFiles == {FileA, FileB}
ConfigFiles == {FileA, FileB, FileEmpty, FilePricingOnly}

\* What os.ReadFile and yaml.Unmarshal make of the file at configPath.
FileOutcomes ==
    {[kind |-> "unreadable"], [kind |-> "unparseable"]}
        \cup {[kind |-> "ok", file |-> f] : f \in ConfigFiles}

\* os.Getenv("PRICING_SERVICE_URL")
EnvPricingURL == ""

\* time.ParseDuration, in seconds
ParseDuration(s) ==
    CASE s = "1h"  -> [ok |-> TRUE, d |-> 3600]
      [] s = "30m" -> [ok |-> TRUE, d |-> 1800]
      [] OTHER     -> [ok |-> FALSE, d |-> 0]

----------------------------------------------------------------------------
\* applyConfig: the tables it builds before it takes the write lock.

\* first loop: one iteration, for the entry `name`
ApplyModelDef(acc, name, def) ==
    LET key == ToLower(name)
        p == [InputPerMillion |->
                 IF def.pricing.input > 0 THEN def.pricing.input
                 ELSE def.pricing.input_per_million,
              OutputPerMillion |->
                 IF def.pricing.output > 0 THEN def.pricing.output
                 ELSE def.pricing.output_per_million]
    IN  [routes |->
            IF ~def.pricing_only
            THEN Put(acc.routes, key,
                     [providerName |-> def.provider, upstreamModel |-> def.upstream,
                      premium |-> def.premium, hidden |-> def.hidden,
                      ownedBy |-> def.owned_by])
            ELSE acc.routes,
         pricing |->
            IF def.pricing.present THEN Put(acc.pricing, key, p) ELSE acc.pricing,
         aliasPricingMap |->
            IF def.alias_pricing # << >>
            THEN Put(acc.aliasPricingMap, key, ToLower(def.alias_pricing))
            ELSE acc.aliasPricingMap,
         prompts |->
            IF def.identity_prompt # << >>
            THEN Put(acc.prompts, key, TrimSpace(def.identity_prompt))
            ELSE acc.prompts]

RECURSIVE BuildTables(_, _, _)
BuildTables(models, order, acc) ==
    IF order = << >> THEN acc
    ELSE BuildTables(models, Tail(order),
                     ApplyModelDef(acc, Head(order), models[Head(order)]))

\* second loop: alias pricing, visiting the aliases in `order`
RECURSIVE ResolveAliasPricing(_, _, _)
ResolveAliasPricing(pr, aliasMap, order) ==
    IF order = << >> THEN pr
    ELSE LET alias == Head(order)
             base == aliasMap[alias]
             next == IF alias \notin DOMAIN pr /\ base \in DOMAIN pr
                     THEN Put(pr, alias, pr[base])
                     ELSE pr
         IN  ResolveAliasPricing(next, aliasMap, Tail(order))

DefaultPricing_NoFallback(file) ==
    [InputPerMillion |-> file.default_pricing.input_per_million,
     OutputPerMillion |-> file.default_pricing.output_per_million]

DefaultPricing(file) ==
    [InputPerMillion |->
        IF file.default_pricing.input_per_million > 0
        THEN file.default_pricing.input_per_million ELSE 100,
     OutputPerMillion |->
        IF file.default_pricing.output_per_million > 0
        THEN file.default_pricing.output_per_million ELSE 400]

\* The entries of `file` that take their price from another entry: those with
\* alias_pricing and no pricing block of their own, as (alias, base) keys.
AliasPairs(file) ==
    { <<ToLower(n), ToLower(file.models[n].alias_pricing)>> :
        n \in {x \in DOMAIN file.models :
                 /\ file.models[x].alias_pricing # << >>
                 /\ ~file.models[x].pricing.present} }

\* The tables applyConfig builds from `file` when its two range loops visit
\* the keys in the orders `order` and `aorder`.
applyConfig(file, order, aorder) ==
    LET t == BuildTables(file.models, order,
                         [routes |-> EmptyMap, pricing |-> EmptyMap,
                          aliasPricingMap |-> EmptyMap, prompts |-> EmptyMap])
        ttl == ParseDuration(file.pricing_ttl)
    IN  [routes |-> t.routes,
         pricing |-> ResolveAliasPricing(t.pricing, t.aliasPricingMap, aorder),
         prompts |-> t.prompts,
         features |-> file.features,
         defaults |-> DefaultPricing(file),
         pricingURL |-> IF EnvPricingURL # "" THEN EnvPricingURL ELSE file.pricing_url,
         pricingTTL |-> IF file.pricing_ttl # "" /\ ttl.ok THEN ttl.d ELSE 21600,
         aliasPricingMap |-> AliasPairs(file)]

\* Every result applyConfig can build from `file`: Go visits the keys of a
\* map in an order that changes from one range loop to the next.
ApplyResults(file) ==
    { applyConfig(file, order, aorder) :
        order \in Orders(DOMAIN file.models),
        aorder \in Orders({ToLower(n) : n \in {x \in DOMAIN file.models :
                                file.models[x].alias_pricing # << >>}}) }

\* loadFromFile with the error of yaml.Unmarshal dropped: the zero-valued
\* file is applied
loadFromFile_ParseErrorDropped(outcome) ==
    IF outcome.kind = "ok" THEN [err |-> FALSE, file |-> outcome.file]
    ELSE IF outcome.kind = "unparseable" THEN [err |-> FALSE, file |-> FileEmpty]
    ELSE [err |-> TRUE, file |-> FileEmpty]

\* loadFromFile: the error it returns, or the file it hands to applyConfig.
loadFromFile(outcome) ==
    IF outcome.kind = "ok"
    THEN [err |-> FALSE, file |-> outcome.file]
    ELSE [err |-> TRUE, file |-> FileEmpty]


----------------------------------------------------------------------------
\* The lookups of ModelConfig, on a configuration c (the five tables a
\* lookup reads, as they stand at one moment).

Config(r, p, i, f, d) ==
    [routes |-> r, pricing |-> p, prompts |-> i, features |-> f, defaults |-> d]

\* the tables as they stand now
mc == Config(routes, pricing, prompts, features, defaults)

ResolveRoute_ExactKey(c, model) ==
    IF model \in DOMAIN c.routes
    THEN [found |-> TRUE, route |-> c.routes[model]]
    ELSE [found |-> FALSE]

ResolveRoute(c, model) ==
    LET key == ToLower(model)
    IN  IF key \in DOMAIN c.routes
        THEN [found |-> TRUE, route |-> c.routes[key]]
        ELSE [found |-> FALSE]

GetPrice(c, model) ==
    LET key == ToLower(model)
    IN  IF key \in DOMAIN c.pricing THEN c.pricing[key] ELSE c.defaults

zenDash == <<"z","e","n","-">>
zen4Dash == <<"z","e","n","4","-">>
zen3Dash == <<"z","e","n","3","-">>
zenPrefix == <<"z","e","n">>

\* the two fallbacks of GetIdentityPrompt that read no table
GenericPrompt(key) == IF HasPrefix(key, zenPrefix) THEN GenericZenPrompt ELSE << >>

GetIdentityPrompt(c, model) ==
    LET key == ToLower(model)
        suffix == DropPrefix(key, 4)
    IN  IF key \in DOMAIN c.prompts THEN c.prompts[key]
        ELSE IF HasPrefix(key, zenDash) /\ (zen4Dash \o suffix) \in DOMAIN c.prompts
             THEN c.prompts[zen4Dash \o suffix]
        ELSE IF HasPrefix(key, zenDash) /\ (zen3Dash \o suffix) \in DOMAIN c.prompts
             THEN c.prompts[zen3Dash \o suffix]
        ELSE GenericPrompt(key)

\* sort.Slice by ID, on keys that are pairwise different
RECURSIVE SortedKeys(_)
SortedKeys(S) ==
    IF S = {} THEN << >>
    ELSE LET least == CHOOSE x \in S : \A y \in S \ {x} : StrLess(x, y)
         IN  <<least>> \o SortedKeys(S \ {least})

modelInfo(name, route) ==
    [ID |-> name,
     OwnedBy |-> IF route.ownedBy = "" THEN route.providerName ELSE route.ownedBy,
     Premium |-> route.premium]

ListModels_IncludesHidden(c) ==
    LET all == SortedKeys(DOMAIN c.routes)
    IN  [i \in 1..Len(all) |-> modelInfo(all[i], c.routes[all[i]])]

ListModels(c) ==
    LET visible == SortedKeys({k \in DOMAIN c.routes : ~c.routes[k].hidden})
    IN  [i \in 1..Len(visible) |-> modelInfo(visible[i], c.routes[visible[i]])]

zapModelEntry(name, route) ==
    [ID |-> name, OwnedBy |-> route.providerName, Premium |-> route.premium,
     Upstream |-> route.upstreamModel]

\* ListModelsWithUpstream when its range loop visits the keys in `order`
ListModelsWithUpstream(c, order) ==
    [i \in 1..Len(order) |-> zapModelEntry(order[i], c.routes[order[i]])]

LookupKinds ==
    {"ResolveRoute", "GetPrice", "GetIdentityPrompt", "ListModels",
     "ListModelsWithUpstream"}

\* The lookups the lookup goroutine makes; the two listings take no name.
ReaderCalls ==
    { [kind |-> k, model |-> m] :
        k \in {"ResolveRoute", "GetPrice", "GetIdentityPrompt"},
        m \in {GPT, Zen_M, zen_v} }
    \cup { [kind |-> k, model |-> << >>] :
              k \in {"ListModels", "ListModelsWithUpstream"} }

\* Every result the lookup `kind` of `model` may return on configuration c.
LookupResults(kind, model, c) ==
    CASE kind = "ResolveRoute" -> { ResolveRoute(c, model) }
      [] kind = "GetPrice" -> { GetPrice(c, model) }
      [] kind = "GetIdentityPrompt" -> { GetIdentityPrompt(c, model) }
      [] kind = "ListModels" -> { ListModels(c) }
      [] OTHER -> { ListModelsWithUpstream(c, o) : o \in Orders(DOMAIN c.routes) }

----------------------------------------------------------------------------
\* The pricing feed (livePricingResponse) and fetchLivePricing's merge.

LiveModel(name, i, o) == [name |-> name, pricing |-> [input |-> i, output |-> o]]

FeedOutcomes ==
    { [kind |-> "transport_error", models |-> << >>],
      [kind |-> "bad_status", models |-> << >>],
      [kind |-> "undecodable", models |-> << >>],
      [kind |-> "ok", models |-> << >>],
      [kind |-> "ok", models |-> <<LiveModel(GPT, 300, 1200), LiveModel(zen4_m, 80, 80)>>],
      [kind |-> "ok", models |-> <<LiveModel(zen4_m, 0, 0), LiveModel(o3, 50, 0)>>] }

RECURSIVE MergeLivePricing(_, _)
MergeLivePricing(pr, models) ==
    IF models = << >> THEN pr
    ELSE LET m == Head(models)
             key == ToLower(m.name)
             next == IF m.pricing.input > 0 \/ m.pricing.output > 0
                     THEN Put(pr, key, [InputPerMillion |-> m.pricing.input,
                                        OutputPerMillion |-> m.pricing.output])
                     ELSE pr
         IN  MergeLivePricing(next, Tail(models))

----------------------------------------------------------------------------
\* mc.mu (sync.RWMutex)

\* a write lock that does not wait for the readers to leave
WriteLockFree_IgnoresReaders(m) == m.writer = "none"

\* Lock() goes through: nobody holds the lock
WriteLockFree(m) == m.writer = "none" /\ m.readers = {}

\* RLock() goes through: no writer holds the lock
ReadLockFree(m) == m.writer = "none"

NoTables ==
    [routes |-> EmptyMap, pricing |-> EmptyMap, prompts |-> EmptyMap,
     features |-> [live_mode |-> FALSE, premium_gate |-> FALSE, starter_credit |-> 0],
     defaults |-> [InputPerMillion |-> 0, OutputPerMillion |-> 0],
     pricingURL |-> "", pricingTTL |-> 0, aliasPricingMap |-> {}]

NoResult == [none |-> TRUE]

\* the lookup goroutine's bookkeeping when a writer releases the lock with
\* configuration c in force
CandsAfterCommit(c) ==
    IF rdpc \in {"idle", "done"} THEN rdCands
    ELSE rdCands \cup LookupResults(rdKind, rdArg, c)

----------------------------------------------------------------------------
\* InitModelConfig: the first load, from a file that exists and parses.

----------------------------------------------------------------------------
\* The gateway: requests, credentials and the services the handlers call.

\* The requests one behaviour serves. Each carries its own request id
\* (util.GenerateUUID), so the request's name stands for its id.
Requests == {"r1", "r2"}

\* balanceCacheTTL = 30 * time.Second
balanceCacheTTL == 30

\* StarterCreditDollars = 5.00, in cents
StarterCreditDollars == 500

\* The clock advances by TickSeconds up to MaxTime.
TickSeconds == 15
MaxTime == 45

\* strings.Repeat
Rep(c, n) == [i \in 1..n |-> c]

\* strings.Split(s, ".")
RECURSIVE SplitDot(_)
SplitDot(s) ==
    IF \A i \in 1..Len(s) : s[i] # "."
    THEN <<s>>
    ELSE LET k == CHOOSE i \in 1..Len(s) :
                      s[i] = "." /\ \A j \in 1..(i - 1) : s[j] # "."
         IN  <<SubSeq(s, 1, k - 1)>> \o SplitDot(SubSeq(s, k + 1, Len(s)))

isJwtToken(token) ==
    LET parts == SplitDot(token)
    IN  Len(parts) = 3 /\ Len(parts[1]) > 10 /\ Len(parts[2]) > 10

isIAMApiKey(token) == HasPrefix(token, <<"h","k","-">>)

\* the handler's if / else if / else over the token: which of the three
\* authentication paths takes it
AuthPath_JwtFirst(token) ==
    IF isJwtToken(token) THEN "jwt"
    ELSE IF isIAMApiKey(token) THEN "iam"
    ELSE "provider"

AuthPath(token) ==
    IF isIAMApiKey(token) THEN "iam"
    ELSE IF isJwtToken(token) THEN "jwt"
    ELSE "provider"

\* A token of three segments: header, payload, signature.
JwtOf(payload) == Rep("h", 11) \o <<".">> \o Rep(payload, 11) \o <<".">> \o <<"s">>

\* two tokens of the same user that differ in the balance claim only
jwtAliceFunded == JwtOf("F")
jwtAliceEmpty  == JwtOf("E")
\* a token whose signature does not verify
jwtForged      == JwtOf("X")
\* an IAM API key of the same user
hkAlice        == <<"h","k","-","a">>
\* a key with the hk- prefix that has three long segments as well
hkDotted       == <<"h","k","-">> \o JwtOf("F")
\* provider keys: of a Model provider, of a Storage provider, of none
skDoAi         == <<"s","k","-","d">>
skStorage      == <<"s","k","-","s">>
skUnknown      == <<"s","k","-","u">>

Tokens == {jwtAliceFunded, jwtAliceEmpty, jwtForged, hkAlice, hkDotted, skDoAi,
           skStorage, skUnknown}

\* *iamsdk.User; Balance is the balance the credential carries.
User(owner, name, balance) == [Owner |-> owner, Name |-> name, Balance |-> balance]
NilUser == [nil |-> TRUE]

\* user.Owner + "/" + user.Name
UserKey(user) == <<user.Owner, "/", user.Name>>

\* iamsdk.ParseJwtToken(token): the claims of a token that verifies
ParseJwtToken(token) ==
    CASE token = jwtAliceFunded ->
            [err |-> FALSE, user |-> User("hanzo", "alice", 10000)]
      [] token = jwtAliceEmpty ->
            [err |-> FALSE, user |-> User("hanzo", "alice", 0)]
      [] OTHER -> [err |-> TRUE, user |-> NilUser]

\* getUserByAccessKey: what the identity service may answer for a key. A
\* failure is a missing endpoint, a transport error, a status other than 200,
\* an undecodable body or a status field other than "ok".
getUserByAccessKey(accessKey) ==
    {[err |-> TRUE, user |-> NilUser], [err |-> FALSE, user |-> NilUser]}
        \cup (IF accessKey = hkAlice
              THEN {[err |-> FALSE, user |-> User("hanzo", "alice", 2500)]}
              ELSE {})

\* *object.Provider
Provider(name, category) == [Name |-> name, Category |-> category]
NilProvider == [nil |-> TRUE]

\* the provider table of the database
ProviderRows ==
    ("do-ai" :> Provider("do-ai", "Model"))
 @@ ("fireworks" :> Provider("fireworks", "Model"))
 @@ ("files" :> Provider("files", "Storage"))

\* object.GetModelProviderByName(name): the row, nil, or a database error
GetModelProviderByName(name) ==
    {[err |-> TRUE, provider |-> NilProvider],
     [err |-> FALSE,
      provider |-> IF name \in DOMAIN ProviderRows /\ ProviderRows[name].Category = "Model"
                   THEN ProviderRows[name] ELSE NilProvider]}

\* object.GetProviderByProviderKey(token): the row, nil, or a database error
GetProviderByProviderKey(providerKey) ==
    {[err |-> TRUE, provider |-> NilProvider],
     [err |-> FALSE,
      provider |-> CASE providerKey = skDoAi    -> ProviderRows["do-ai"]
                     [] providerKey = skStorage -> ProviderRows["files"]
                     [] OTHER                   -> NilProvider]}

\* resolveModelRoute with the model configuration initialised: cfg.ResolveRoute
resolveModelRoute(model) == ResolveRoute(mc, model)

\* The handlers and what a request may ask for.
Handlers == {"ChatCompletions", "AnthropicMessages"}
RequestModels == {GPT, zen4_m, o3}

\* "available" of the balance service's response, in cents
BalanceValues == {0, 1, 500, 501}

\* What the GET to the balance service may come to: a transport error, a
\* status other than 200, a body that does not decode, or a balance.
CommerceOutcomes ==
    {[kind |-> "transport_error", available |-> 0],
     [kind |-> "bad_status", available |-> 0],
     [kind |-> "undecodable", available |-> 0]}
        \cup {[kind |-> "ok", available |-> b] : b \in BalanceValues}

\* usageRecord
NoUsage == [none |-> TRUE]

NoRoute == [found |-> FALSE]

\* A request that has not arrived.
IdleRequest ==
    [pc |-> "idle", handler |-> "none", token |-> << >>, model |-> << >>,
     \* handler locals
     authUser |-> NilUser, provider |-> NilProvider, upstreamModel |-> "",
     isPremium |-> FALSE, response |-> "none", err |-> "none",
     \* resolveProviderForUser and getUserBalance locals
     route |-> NoRoute, available |-> 0, balance |-> 0,
     \* modelResult
     promptTokens |-> 0, completionTokens |-> 0,
     \* what happened: the outcome of resolveProviderForUser; the value
     \* getUserBalance returned, where it came from and when the balance
     \* service answered with it; when getUserBalance was called and when
     \* the comparisons were made; the calls made to the balance service and
     \* what the last one came to; what QueryText came to
     gate |-> "none", fetched |-> 0, source |-> "none", obtainedAt |-> 0,
     calledAt |-> 0, decidedAt |-> 0, commerceCalls |-> 0,
     callOutcome |-> "none", upstream |-> "none",
     \* usage recording: invocations of recordUsage, the record passed, the
     \* goroutine's position, and the payloads posted to the sink
     usageCalls |-> 0, usage |-> NoUsage, gpc |-> "none", posted |-> << >>,
     \* the authentication paths that took the token; the lookups made in
     \* the provider table; provider.SubType as the handler set it, and
     \* whether the name came from the route or from the request
     authPath |-> {}, providerLookups |-> 0,
     subType |-> [from |-> "none", name |-> ""],
     \* the price ModelConfig.GetPrice gives for the record's model when the
     \* goroutine computes the cost
     tablePrice |-> NoUsage]

\* balanceEntry, with the time the balance service answered
Entry(balance, fetchedAt, obtainedAt) ==
    [balance |-> balance, fetchedAt |-> fetchedAt, obtainedAt |-> obtainedAt]

\* time.Since(entry.fetchedAt) < balanceCacheTTL
Fresh(entry, t) == t - entry.fetchedAt < balanceCacheTTL

\* the two comparisons of resolveProviderForUser: the error it returns
GateDecision_PremiumBelowCredit(premium, balance) ==
    IF balance <= 0 THEN "needs_positive_balance"
    ELSE IF premium /\ balance < StarterCreditDollars THEN "needs_paid_balance"
    ELSE "none"

GateDecision(premium, balance) ==
    IF balance <= 0 THEN "needs_positive_balance"
    ELSE IF premium /\ balance <= StarterCreditDollars THEN "needs_paid_balance"
    ELSE "none"

\* no call of calculateCostCents, no writer, no KMS client
NoCall == [none |-> TRUE]
NoWriter == [none |-> TRUE]
NoKms == [none |-> TRUE]
NoZap == [none |-> TRUE]
NoTask == [none |-> TRUE]
NoChat == [none |-> TRUE]

LibIdle ==
    cost = NoCall /\ aw = NoWriter /\ ks = NoKms /\ zap = NoZap /\ bg = NoTask /\ ip = NoChat

----------------------------------------------------------------------------
\* The state after InitModelConfig

InitConfig ==
    \E f \in InitFiles : \E c \in ApplyResults(f) :
        /\ routes = c.routes
        /\ pricing = c.pricing
        /\ prompts = c.prompts
        /\ features = c.features
        /\ defaults = c.defaults
        /\ pricingURL = c.pricingURL
        /\ pricingTTL = c.pricingTTL
        /\ aliasPricingMap = c.aliasPricingMap
        /\ bgRunning = c.features.live_mode
        /\ mcCommitted = Config(c.routes, c.pricing, c.prompts, c.features, c.defaults)
        /\ pricingRefreshed = FALSE
        /\ mu = [writer |-> "none", readers |-> {}]
        /\ rlpc = "idle"
        /\ rlNew = NoTables
        /\ reloadCount = 0
        /\ reloadFile = "none"
        /\ reloadResult = "none"
        /\ fpc = "idle"
        /\ fResp = << >>
        /\ fetchQueued = 0
        /\ rdpc = "idle"
        /\ rdKind = "none"
        /\ rdArg = << >>
        /\ rdResult = NoResult
        /\ rdCands = {}
        /\ req = [r \in Requests |-> IdleRequest]
        /\ balanceCache = EmptyMap
        /\ now = 0
        /\ commerceEndpoint = ""
        /\ LibIdle

tableVars == <<routes, pricing, prompts, features, defaults, pricingURL, pricingTTL,
               pricingRefreshed, aliasPricingMap>>
reloadVars == <<rlpc, rlNew, reloadCount, reloadFile, reloadResult>>
fetchVars == <<fpc, fResp>>
readerVars == <<rdpc, rdKind, rdArg, rdResult, rdCands>>

----------------------------------------------------------------------------
\* Reload

\* Reload up to the write lock: loadFromFile reads and parses the file and
\* applyConfig builds the new tables. A file that cannot be read or parsed
\* makes Reload return the error.
ReloadCall ==
    /\ rlpc = "idle"
    /\ reloadCount < MaxReloads
    /\ \E outcome \in FileOutcomes :
         LET r == loadFromFile(outcome)
         IN  /\ reloadCount' = reloadCount + 1
             /\ reloadFile' = outcome.kind
             /\ IF r.err
                THEN /\ reloadResult' = "error"
                     /\ UNCHANGED <<rlpc, rlNew>>
                ELSE /\ \E c \in ApplyResults(r.file) : rlNew' = c
                     /\ rlpc' = "lock"
                     /\ reloadResult' = "running"
    /\ UNCHANGED <<tableVars, mu, fetchVars, fetchQueued, bgRunning, readerVars,
                   mcCommitted>>
    /\ UNCHANGED gwVars

\* mc.mu.Lock()
ReloadLock ==
    /\ rlpc = "lock"
    /\ WriteLockFree(mu)
    /\ mu' = [mu EXCEPT !.writer = "reload"]
    /\ rlpc' = "set_routes"
    /\ UNCHANGED <<tableVars, rlNew, reloadCount, reloadFile, reloadResult,
                   fetchVars, fetchQueued, bgRunning, readerVars, mcCommitted>>
    /\ UNCHANGED gwVars

ReloadFrame ==
    UNCHANGED <<pricingRefreshed, mu, rlNew, reloadCount, reloadFile, reloadResult,
                fetchVars, fetchQueued, bgRunning, readerVars, mcCommitted, gwVars>>

\* mc.routes = routes
ReloadSetRoutes ==
    /\ rlpc = "set_routes"
    /\ routes' = rlNew.routes
    /\ rlpc' = "set_pricing"
    /\ UNCHANGED <<pricing, prompts, features, defaults, pricingURL, pricingTTL,
                   aliasPricingMap>>
    /\ ReloadFrame

\* mc.pricing = pricing
ReloadSetPricing ==
    /\ rlpc = "set_pricing"
    /\ pricing' = rlNew.pricing
    /\ aliasPricingMap' = rlNew.aliasPricingMap
    /\ rlpc' = "set_prompts"
    /\ UNCHANGED <<routes, prompts, features, defaults, pricingURL, pricingTTL>>
    /\ ReloadFrame

\* mc.prompts = prompts
ReloadSetPrompts ==
    /\ rlpc = "set_prompts"
    /\ prompts' = rlNew.prompts
    /\ rlpc' = "set_features"
    /\ UNCHANGED <<routes, pricing, features, defaults, pricingURL, pricingTTL,
                   aliasPricingMap>>
    /\ ReloadFrame

\* mc.features = file.Features
ReloadSetFeatures ==
    /\ rlpc = "set_features"
    /\ features' = rlNew.features
    /\ rlpc' = "set_defaults"
    /\ UNCHANGED <<routes, pricing, prompts, defaults, pricingURL, pricingTTL,
                   aliasPricingMap>>
    /\ ReloadFrame

\* mc.defaults = defaults
ReloadSetDefaults ==
    /\ rlpc = "set_defaults"
    /\ defaults' = rlNew.defaults
    /\ rlpc' = "set_service"
    /\ UNCHANGED <<routes, pricing, prompts, features, pricingURL, pricingTTL,
                   aliasPricingMap>>
    /\ ReloadFrame

\* mc.pricingURL = pricingURL; mc.pricingTTL = pricingTTL
ReloadSetService ==
    /\ rlpc = "set_service"
    /\ pricingURL' = rlNew.pricingURL
    /\ pricingTTL' = rlNew.pricingTTL
    /\ rlpc' = "unlock"
    /\ UNCHANGED <<routes, pricing, prompts, features, defaults,
                   aliasPricingMap>>
    /\ ReloadFrame

\* mc.mu.Unlock()
ReloadUnlock ==
    /\ rlpc = "unlock"
    /\ mu' = [mu EXCEPT !.writer = "none"]
    /\ mcCommitted' = mc
    /\ rdCands' = CandsAfterCommit(mc)
    /\ rlNew' = NoTables
    /\ rlpc' = "read_live"
    /\ UNCHANGED <<tableVars, reloadCount, reloadFile, reloadResult, fetchVars,
                   fetchQueued, bgRunning, rdpc, rdKind, rdArg, rdResult>>
    /\ UNCHANGED gwVars

\* mc.mu.RLock(); live := mc.features.LiveMode; mc.mu.RUnlock()
ReloadReadLive ==
    /\ rlpc = "read_live"
    /\ ReadLockFree(mu)
    /\ IF features.live_mode
       THEN rlpc' = "spawn" /\ UNCHANGED reloadResult
       ELSE rlpc' = "idle" /\ reloadResult' = "ok"
    /\ UNCHANGED <<tableVars, mu, rlNew, reloadCount, reloadFile, fetchVars,
                   fetchQueued, bgRunning, readerVars, mcCommitted>>
    /\ UNCHANGED gwVars

\* go mc.fetchLivePricing(); return nil
ReloadSpawn ==
    /\ rlpc = "spawn"
    /\ fetchQueued < MaxQueued
    /\ fetchQueued' = fetchQueued + 1
    /\ rlpc' = "idle"
    /\ reloadResult' = "ok"
    /\ UNCHANGED <<tableVars, mu, rlNew, reloadCount, reloadFile, fetchVars,
                   bgRunning, readerVars, mcCommitted>>
    /\ UNCHANGED gwVars


----------------------------------------------------------------------------
\* backgroundRefresh and fetchLivePricing

\* backgroundRefresh: the first fetch, or the ticker firing
BackgroundTick ==
    /\ bgRunning
    /\ fetchQueued < MaxQueued
    /\ fetchQueued' = fetchQueued + 1
    /\ UNCHANGED <<tableVars, mu, reloadVars, fetchVars, bgRunning, readerVars,
                   mcCommitted>>
    /\ UNCHANGED gwVars

\* mc.mu.RLock(); url := mc.pricingURL; mc.mu.RUnlock(); if url == "" return
FetchStart ==
    /\ fpc = "idle"
    /\ fetchQueued > 0
    /\ ReadLockFree(mu)
    /\ fetchQueued' = fetchQueued - 1
    /\ fpc' = IF pricingURL = "" THEN "idle" ELSE "get"
    /\ UNCHANGED <<tableVars, mu, reloadVars, fResp, bgRunning, readerVars,
                   mcCommitted>>
    /\ UNCHANGED gwVars

FetchGet_EmptyListMerges ==
    /\ fpc = "get"
    /\ \E resp \in FeedOutcomes :
         IF resp.kind # "ok"
         THEN fpc' = "idle" /\ UNCHANGED fResp
         ELSE fpc' = "lock" /\ fResp' = resp.models
    /\ UNCHANGED <<tableVars, mu, reloadVars, fetchQueued, bgRunning, readerVars,
                   mcCommitted>>
    /\ UNCHANGED gwVars

\* client.Get, the status check, the decoding and the empty-list check
FetchGet ==
    /\ fpc = "get"
    /\ \E resp \in FeedOutcomes :
         IF resp.kind # "ok" \/ Len(resp.models) = 0
         THEN fpc' = "idle" /\ UNCHANGED fResp
         ELSE fpc' = "lock" /\ fResp' = resp.models
    /\ UNCHANGED <<tableVars, mu, reloadVars, fetchQueued, bgRunning, readerVars,
                   mcCommitted>>
    /\ UNCHANGED gwVars

\* mc.mu.Lock()
FetchLock ==
    /\ fpc = "lock"
    /\ WriteLockFree(mu)
    /\ mu' = [mu EXCEPT !.writer = "fetch"]
    /\ fpc' = "merge"
    /\ UNCHANGED <<tableVars, reloadVars, fResp, fetchQueued, bgRunning, readerVars,
                   mcCommitted>>
    /\ UNCHANGED gwVars

\* the merge loop and mc.lastPricingAt = time.Now()
FetchMerge ==
    /\ fpc = "merge"
    /\ pricing' = MergeLivePricing(pricing, fResp)
    /\ pricingRefreshed' = TRUE
    /\ fpc' = "unlock"
    /\ UNCHANGED <<routes, prompts, features, defaults, pricingURL, pricingTTL,
                   aliasPricingMap, mu, reloadVars, fResp, fetchQueued, bgRunning, readerVars, mcCommitted>>
    /\ UNCHANGED gwVars

\* mc.mu.Unlock()
FetchUnlock ==
    /\ fpc = "unlock"
    /\ mu' = [mu EXCEPT !.writer = "none"]
    /\ mcCommitted' = mc
    /\ rdCands' = CandsAfterCommit(mc)
    /\ fResp' = << >>
    /\ fpc' = "idle"
    /\ UNCHANGED <<tableVars, reloadVars, fetchQueued, bgRunning, rdpc, rdKind,
                   rdArg, rdResult>>
    /\ UNCHANGED gwVars

----------------------------------------------------------------------------
\* A lookup, read by read under the read lock.

ReaderFrame ==
    UNCHANGED <<tableVars, reloadVars, fetchVars, fetchQueued, bgRunning, mcCommitted,
                gwVars>>

\* key := strings.ToLower(model); mc.mu.RLock()
ReaderBegin ==
    /\ rdpc = "idle"
    /\ ReadLockFree(mu)
    /\ \E call \in ReaderCalls :
         /\ rdKind' = call.kind
         /\ rdArg' = call.model
         /\ rdCands' = LookupResults(call.kind, call.model, mcCommitted)
    /\ mu' = [mu EXCEPT !.readers = @ \cup {"reader"}]
    /\ rdpc' = "read1"
    /\ rdResult' = NoResult
    /\ ReaderFrame

\* the first table read of the lookup
ReaderRead1 ==
    /\ rdpc = "read1"
    /\ LET key == ToLower(rdArg)
       IN  CASE rdKind = "ResolveRoute" ->
                  /\ rdResult' = IF key \in DOMAIN routes
                                 THEN [found |-> TRUE, route |-> routes[key]]
                                 ELSE [found |-> FALSE]
                  /\ rdpc' = "unlock"
             [] rdKind = "ListModels" ->
                  /\ rdResult' = ListModels(mc)
                  /\ rdpc' = "unlock"
             [] rdKind = "ListModelsWithUpstream" ->
                  /\ \E o \in Orders(DOMAIN routes) :
                        rdResult' = ListModelsWithUpstream(mc, o)
                  /\ rdpc' = "unlock"
             [] rdKind = "GetPrice" ->
                  IF key \in DOMAIN pricing
                  THEN rdResult' = pricing[key] /\ rdpc' = "unlock"
                  ELSE rdResult' = rdResult /\ rdpc' = "read2"
             [] rdKind = "GetIdentityPrompt" ->
                  IF key \in DOMAIN prompts
                  THEN rdResult' = prompts[key] /\ rdpc' = "unlock"
                  ELSE IF HasPrefix(key, zenDash)
                  THEN rdResult' = rdResult /\ rdpc' = "read2"
                  ELSE rdResult' = GenericPrompt(key) /\ rdpc' = "unlock"
    /\ UNCHANGED <<mu, rdKind, rdArg, rdCands>>
    /\ ReaderFrame

\* GetPrice: return mc.defaults; GetIdentityPrompt: mc.prompts["zen4-"+suffix]
ReaderRead2 ==
    /\ rdpc = "read2"
    /\ LET key == ToLower(rdArg)
           k4 == zen4Dash \o DropPrefix(key, 4)
       IN  IF rdKind = "GetPrice"
           THEN rdResult' = defaults /\ rdpc' = "unlock"
           ELSE IF k4 \in DOMAIN prompts
           THEN rdResult' = prompts[k4] /\ rdpc' = "unlock"
           ELSE rdResult' = rdResult /\ rdpc' = "read3"
    /\ UNCHANGED <<mu, rdKind, rdArg, rdCands>>
    /\ ReaderFrame

\* GetIdentityPrompt: mc.prompts["zen3-"+suffix], then the generic prompt
ReaderRead3 ==
    /\ rdpc = "read3"
    /\ LET key == ToLower(rdArg)
           k3 == zen3Dash \o DropPrefix(key, 4)
       IN  rdResult' = IF k3 \in DOMAIN prompts THEN prompts[k3]
                       ELSE GenericPrompt(key)
    /\ rdpc' = "unlock"
    /\ UNCHANGED <<mu, rdKind, rdArg, rdCands>>
    /\ ReaderFrame

\* the deferred mc.mu.RUnlock(); the lookup returns rdResult
ReaderUnlock ==
    /\ rdpc = "unlock"
    /\ mu' = [mu EXCEPT !.readers = @ \ {"reader"}]
    /\ rdpc' = "done"
    /\ UNCHANGED <<rdKind, rdArg, rdResult, rdCands>>
    /\ ReaderFrame

\* the caller has used the result
ReaderReturn ==
    /\ rdpc = "done"
    /\ rdpc' = "idle"
    /\ rdKind' = "none"
    /\ rdArg' = << >>
    /\ rdResult' = NoResult
    /\ rdCands' = {}
    /\ UNCHANGED mu
    /\ ReaderFrame

----------------------------------------------------------------------------
\* The configuration subsystem: Reload, live pricing refresh and lookups.

NextConfig ==
    \/ ReloadCall
    \/ ReloadLock
    \/ ReloadSetRoutes
    \/ ReloadSetPricing
    \/ ReloadSetPrompts
    \/ ReloadSetFeatures
    \/ ReloadSetDefaults
    \/ ReloadSetService
    \/ ReloadUnlock
    \/ ReloadReadLive
    \/ ReloadSpawn
    \/ BackgroundTick
    \/ FetchStart
    \/ FetchGet
    \/ FetchLock
    \/ FetchMerge
    \/ FetchUnlock
    \/ ReaderBegin
    \/ ReaderRead1
    \/ ReaderRead2
    \/ ReaderRead3
    \/ ReaderUnlock
    \/ ReaderReturn

SpecConfig == InitConfig /\ [][NextConfig]_vars


----------------------------------------------------------------------------
\* The request handlers: ChatCompletions and AnthropicMessages.

GatewayStart ==
    /\ \E c \in ApplyResults(FileA) :
        /\ routes = c.routes
        /\ pricing = c.pricing
        /\ prompts = c.prompts
        /\ features = c.features
        /\ defaults = c.defaults
        /\ pricingURL = c.pricingURL
        /\ pricingTTL = c.pricingTTL
        /\ aliasPricingMap = c.aliasPricingMap
        /\ bgRunning = c.features.live_mode
        /\ mcCommitted = Config(c.routes, c.pricing, c.prompts, c.features, c.defaults)
    /\ pricingRefreshed = FALSE
    /\ mu = [writer |-> "none", readers |-> {}]
    /\ rlpc = "idle"
    /\ rlNew = NoTables
    /\ reloadCount = 0
    /\ reloadFile = "none"
    /\ reloadResult = "none"
    /\ fpc = "idle"
    /\ fResp = << >>
    /\ fetchQueued = 0
    /\ rdpc = "idle"
    /\ rdKind = "none"
    /\ rdArg = << >>
    /\ rdResult = NoResult
    /\ rdCands = {}
    /\ req = [r \in Requests |-> IdleRequest]
    /\ balanceCache = EmptyMap
    /\ now = 0
    /\ commerceEndpoint \in {"", "https://commerce.hanzo.ai/"}

InitGateway == GatewayStart /\ LibIdle

\* what a gateway step leaves alone besides the request and the balance cache
GwFrame == UNCHANGED <<cfgVars, now, commerceEndpoint, libVars>>

\* c.ResponseError / c.respondAnthropicError followed by return
Fail(q, e) == [q EXCEPT !.pc = "responded", !.response = "error", !.err = e]

\* resolveProviderForUser returns an error: the handler answers
\* "Authentication failed: ..." and returns
Reject(q, e) == [Fail(q, e) EXCEPT !.gate = "error"]

\* A request reaches the handler with a credential and a well-formed body.
Arrive(r, tokens, models, handlers) ==
    /\ req[r].pc = "idle"
    /\ \E t \in tokens, m \in models, h \in handlers :
         req' = [req EXCEPT ![r] = [@ EXCEPT !.pc = "auth", !.handler = h,
                                             !.token = t, !.model = m]]
    /\ UNCHANGED balanceCache
    /\ GwFrame

\* A request without a credential or with a body the handler refuses (no
\* "Bearer " prefix, JSON that does not parse, a missing model, max_tokens or
\* messages): the handler answers the error and returns.
ArriveMalformed(r) ==
    /\ req[r].pc = "idle"
    /\ \E h \in Handlers :
         req' = [req EXCEPT ![r] = Fail([@ EXCEPT !.handler = h], "bad_request")]
    /\ UNCHANGED balanceCache
    /\ GwFrame

\* if isIAMApiKey(token): resolveProviderFromIAMKey calls getUserByAccessKey
AuthIAMKey(r) ==
    /\ req[r].pc = "auth"
    /\ AuthPath(req[r].token) = "iam"
    /\ req' = [req EXCEPT ![r] = [@ EXCEPT !.pc = "iam_call",
                                           !.authPath = @ \cup {"iam"}]]
    /\ UNCHANGED balanceCache
    /\ GwFrame

\* getUserByAccessKey returns
IAMKeyLookup(r) ==
    /\ req[r].pc = "iam_call"
    /\ \E o \in getUserByAccessKey(req[r].token) :
         req' = [req EXCEPT ![r] =
                    IF o.err THEN Fail(@, "iam_key_validation_failed")
                    ELSE IF o.user = NilUser THEN Fail(@, "invalid_iam_key")
                    ELSE [@ EXCEPT !.pc = "route", !.authUser = o.user]]
    /\ UNCHANGED balanceCache
    /\ GwFrame

\* else if isJwtToken(token): resolveProviderFromJwt calls iamsdk.ParseJwtToken
AuthJwt(r) ==
    /\ req[r].pc = "auth"
    /\ AuthPath(req[r].token) = "jwt"
    /\ LET p == ParseJwtToken(req[r].token)
           q == [req[r] EXCEPT !.authPath = @ \cup {"jwt"}]
       IN  req' = [req EXCEPT ![r] =
                      IF p.err THEN Fail(q, "invalid_jwt")
                      ELSE [q EXCEPT !.pc = "route", !.authUser = p.user]]
    /\ UNCHANGED balanceCache
    /\ GwFrame

\* else: object.GetProviderByProviderKey(token)
AuthProviderKey(r) ==
    /\ req[r].pc = "auth"
    /\ AuthPath(req[r].token) = "provider"
    /\ \E o \in GetProviderByProviderKey(req[r].token) :
         LET q == [req[r] EXCEPT !.authPath = @ \cup {"provider"},
                                 !.providerLookups = @ + 1]
         IN  req' = [req EXCEPT ![r] =
                        IF o.err THEN Fail(q, "provider_lookup_failed")
                        ELSE IF o.provider = NilProvider THEN Fail(q, "invalid_api_key")
                        ELSE [q EXCEPT !.pc = "premium", !.provider = o.provider]]
    /\ UNCHANGED balanceCache
    /\ GwFrame

\* resolveProviderForUser: route := resolveModelRoute(requestedModel), and
\* the error for a model without a route
GateRouteResult_OtherError(q, rt) ==
    IF ~rt.found THEN Reject(q, "provider_not_configured")
    ELSE [q EXCEPT !.pc = "provider", !.route = rt]

GateRouteResult(q, rt) ==
    IF ~rt.found THEN Reject(q, "model_not_available")
    ELSE [q EXCEPT !.pc = "provider", !.route = rt]

GateRoute(r) ==
    /\ req[r].pc = "route"
    /\ ReadLockFree(mu)
    /\ req' = [req EXCEPT ![r] = GateRouteResult(@, resolveModelRoute(req[r].model))]
    /\ UNCHANGED balanceCache
    /\ GwFrame

\* resolveProviderForUser: object.GetModelProviderByName(route.providerName)
GateProvider(r) ==
    /\ req[r].pc = "provider"
    /\ \E o \in GetModelProviderByName(req[r].route.route.providerName) :
         LET q == [req[r] EXCEPT !.providerLookups = @ + 1]
         IN  req' = [req EXCEPT ![r] =
                        IF o.err THEN Reject(q, "provider_failed")
                        ELSE IF o.provider = NilProvider
                        THEN Reject(q, "provider_not_configured")
                        ELSE [q EXCEPT !.pc = "balance", !.provider = o.provider]]
    /\ UNCHANGED balanceCache
    /\ GwFrame

\* balance, err := getUserBalance(...): the value the comparisons are made on
ComparedBalance_FromCredential(user, fetched) == user.Balance

ComparedBalance(user, fetched) == fetched

\* resolveProviderForUser after getUserBalance returned `fetched`: the two
\* comparisons, then user.Balance = balance and the return to the handler,
\* which answers the error or goes on.
Decide(q, fetched, source, obtainedAt) ==
    LET balance == ComparedBalance(q.authUser, fetched)
        d == GateDecision(q.route.route.premium, balance)
        seen == [q EXCEPT !.fetched = fetched, !.balance = balance,
                          !.source = source, !.obtainedAt = obtainedAt,
                          !.decidedAt = now]
    IN  IF d # "none" THEN Reject(seen, d)
        ELSE [seen EXCEPT !.gate = "ok", !.pc = "premium",
                          !.authUser = [@ EXCEPT !.Balance = balance],
                          !.upstreamModel = q.route.route.upstreamModel]

\* getUserBalance returns 0 and an error; resolveProviderForUser returns
\* "failed to verify account balance"
BalanceError_TakenAsFunded(q, kind) ==
    Decide([q EXCEPT !.callOutcome = kind], StarterCreditDollars + 1, "none", now)

BalanceError(q, kind) ==
    [Reject(q, "balance_unverified") EXCEPT !.callOutcome = kind]

\* getUserBalance: the cache holds an entry younger than the TTL; it is
\* returned and resolveProviderForUser compares it
BalanceCacheHit(r) ==
    /\ req[r].pc = "balance"
    /\ LET key == UserKey(req[r].authUser)
       IN  /\ key \in DOMAIN balanceCache
           /\ Fresh(balanceCache[key], now)
           /\ req' = [req EXCEPT ![r] =
                         Decide([@ EXCEPT !.calledAt = now],
                                balanceCache[key].balance, "cache",
                                balanceCache[key].obtainedAt)]
    /\ UNCHANGED balanceCache
    /\ GwFrame

\* getUserBalance: no entry younger than the TTL; without a commerceEndpoint
\* it returns an error, otherwise it sends the GET to the balance service
BalanceCacheMiss(r) ==
    /\ req[r].pc = "balance"
    /\ LET key == UserKey(req[r].authUser)
       IN  ~(key \in DOMAIN balanceCache /\ Fresh(balanceCache[key], now))
    /\ req' = [req EXCEPT ![r] =
                  IF commerceEndpoint = ""
                  THEN BalanceError([@ EXCEPT !.calledAt = now], "not_configured")
                  ELSE [@ EXCEPT !.pc = "commerce_call", !.calledAt = now,
                                 !.commerceCalls = @ + 1]]
    /\ UNCHANGED balanceCache
    /\ GwFrame

\* getUserBalance: client.Do returns; a transport error, a status other than
\* 200 or an undecodable body is returned as the error
CommerceResponds(r) ==
    /\ req[r].pc = "commerce_call"
    /\ \E o \in CommerceOutcomes :
         req' = [req EXCEPT ![r] =
                    IF o.kind # "ok" THEN BalanceError(@, o.kind)
                    ELSE [@ EXCEPT !.pc = "store", !.available = o.available,
                                   !.callOutcome = "ok", !.obtainedAt = now]]
    /\ UNCHANGED balanceCache
    /\ GwFrame

\* getUserBalance: balanceCache[username] = &balanceEntry{...} under the
\* lock; it returns and resolveProviderForUser compares the balance
BalanceStore(r) ==
    /\ req[r].pc = "store"
    /\ balanceCache' = Put(balanceCache, UserKey(req[r].authUser),
                           Entry(req[r].available, now, req[r].obtainedAt))
    /\ req' = [req EXCEPT ![r] =
                  Decide(@, req[r].available, "service", req[r].obtainedAt)]
    /\ GwFrame

\* The handler after authentication: resolveModelRoute(request.Model) gives
\* isPremium, and for a provider key the upstream model as well.
ReadRoute(r) ==
    /\ req[r].pc = "premium"
    /\ ReadLockFree(mu)
    /\ LET rt == resolveModelRoute(req[r].model)
       IN  req' = [req EXCEPT ![r] =
                      [@ EXCEPT !.pc = "prepare",
                                !.isPremium = IF rt.found THEN rt.route.premium ELSE @,
                                !.upstreamModel =
                                    IF rt.found /\ req[r].authUser = NilUser
                                    THEN rt.route.upstreamModel ELSE @]]
    /\ UNCHANGED balanceCache
    /\ GwFrame

\* what provider.GetModelProvider and the scan of the messages come to
PrepareOutcomes == {"ok", "model_provider_failed", "no_user_message"}

\* provider.SubType: the upstream model if one was set, else the requested
\* name, else the provider's own
SubType(q) ==
    IF q.upstreamModel # "" THEN [from |-> "route", name |-> q.upstreamModel]
    ELSE [from |-> "request", name |-> q.model]

\* The category check, provider.SubType, provider.GetModelProvider, the
\* identity prompt and the extraction of the question, up to the call of
\* QueryText.
Prepare(r) ==
    /\ req[r].pc = "prepare"
    /\ \E o \in PrepareOutcomes :
         req' = [req EXCEPT ![r] =
                    IF req[r].provider.Category # "Model"
                    THEN Fail(@, "not_a_model_provider")
                    ELSE IF o # "ok" THEN Fail([@ EXCEPT !.subType = SubType(req[r])], o)
                    ELSE [@ EXCEPT !.pc = "upstream_call",
                                   !.subType = SubType(req[r])]]
    /\ UNCHANGED balanceCache
    /\ GwFrame

\* modelResult of a QueryText that succeeds: prompt and response token counts
TokenCounts == {<<0, 0>>, <<1000, 500>>, <<100000, 20000>>}

\* modelProvider.QueryText returns
UpstreamReturns(r) ==
    /\ req[r].pc = "upstream_call"
    /\ \/ req' = [req EXCEPT ![r] = [@ EXCEPT !.pc = "record", !.upstream = "failed"]]
       \/ \E tc \in TokenCounts :
            req' = [req EXCEPT ![r] = [@ EXCEPT !.pc = "record", !.upstream = "ok",
                                                !.promptTokens = tc[1],
                                                !.completionTokens = tc[2]]]
    /\ UNCHANGED balanceCache
    /\ GwFrame

\* the usageRecord the handler builds
UsageRecord_StatusSuccess(r, q) ==
    [Owner |-> q.authUser.Owner, User |-> UserKey(q.authUser), Model |-> q.model,
     Provider |-> q.provider.Name, Premium |-> q.isPremium,
     PromptTokens |-> q.promptTokens, CompletionTokens |-> q.completionTokens,
     Status |-> "success", RequestID |-> r]

UsageRecord(r, q) ==
    [Owner |-> q.authUser.Owner, User |-> UserKey(q.authUser), Model |-> q.model,
     Provider |-> q.provider.Name, Premium |-> q.isPremium,
     PromptTokens |-> IF q.upstream = "ok" THEN q.promptTokens ELSE 0,
     CompletionTokens |-> IF q.upstream = "ok" THEN q.completionTokens ELSE 0,
     Status |-> IF q.upstream = "ok" THEN "success" ELSE "error",
     RequestID |-> r]

\* if authUser != nil { recordUsage(...) }: the invocation starts the goroutine
RecordUsage(r) ==
    /\ req[r].pc = "record"
    /\ req[r].authUser # NilUser
    /\ req' = [req EXCEPT ![r] = [@ EXCEPT !.pc = "respond",
                                           !.usageCalls = @ + 1,
                                           !.usage = UsageRecord(r, req[r]),
                                           !.gpc = "start"]]
    /\ UNCHANGED balanceCache
    /\ GwFrame

\* authUser == nil (a provider key): recordUsage is not invoked
SkipUsage(r) ==
    /\ req[r].pc = "record"
    /\ req[r].authUser = NilUser
    /\ req' = [req EXCEPT ![r].pc = "respond"]
    /\ UNCHANGED balanceCache
    /\ GwFrame

\* recordUsage has returned: it only starts its goroutine, so the handler
\* goes on to the response whatever the goroutine and the sink do
ResponseReady_WaitsForSink(q) == q.pc = "respond" /\ q.gpc \in {"none", "done"}

ResponseReady(q) == q.pc = "respond"

\* The handler answers: the error of QueryText, or the completion; writing
\* the completion (json.Marshal, writer.Close) may itself fail.
WriteResponse(r) ==
    /\ ResponseReady(req[r])
    /\ \/ /\ req[r].upstream = "failed"
          /\ req' = [req EXCEPT ![r] = Fail(@, "upstream_failed")]
       \/ /\ req[r].upstream = "ok"
          /\ \/ req' = [req EXCEPT ![r] = [@ EXCEPT !.pc = "responded", !.response = "ok"]]
             \/ req' = [req EXCEPT ![r] = Fail(@, "write_failed")]
    /\ UNCHANGED balanceCache
    /\ GwFrame

----------------------------------------------------------------------------
\* recordUsage's goroutine and the cost of a call

Price(i, o) == [InputPerMillion |-> i, OutputPerMillion |-> o]

openai_o3 == <<"o","p","/","o","3">>

\* modelPricing and aliasPricing (model_pricing.go), for the models above;
\* "gpt" stands for gpt-4o and "zen4-m" for zen4-mini
modelPricing ==
    (gpt :> Price(250, 1000)) @@ (zen4_m :> Price(60, 60)) @@ (o3 :> Price(1000, 4000))

aliasPricing == (openai_o3 :> o3)

getModelPrice(model) ==
    LET m == ToLower(model)
    IN  IF m \in DOMAIN modelPricing THEN modelPricing[m]
        ELSE IF m \in DOMAIN aliasPricing /\ aliasPricing[m] \in DOMAIN modelPricing
        THEN modelPricing[aliasPricing[m]]
        ELSE Price(100, 400)

\* calculateCostCents: with prices in cents per million, the cost in cents is
\* (prompt * in + completion * out) / 1e6, rounded half away from zero
\* (math.Round), and at least 1 for a call that used tokens
CostOf_NoFloor(price, promptTokens, completionTokens) ==
    LET millionths == promptTokens * price.InputPerMillion
                          + completionTokens * price.OutputPerMillion
    IN  (2 * millionths + 1000000) \div 2000000

CostOf(price, promptTokens, completionTokens) ==
    LET millionths == promptTokens * price.InputPerMillion
                          + completionTokens * price.OutputPerMillion
        costCents == (2 * millionths + 1000000) \div 2000000
    IN  IF costCents <= 0 /\ (promptTokens > 0 \/ completionTokens > 0)
        THEN 1 ELSE costCents

calculateCostCents(model, promptTokens, completionTokens) ==
    CostOf(getModelPrice(model), promptTokens, completionTokens)

\* the payload recordUsage posts
Payload(record) ==
    [user |-> record.User,
     amount |-> calculateCostCents(record.Model, record.PromptTokens,
                                   record.CompletionTokens),
     model |-> record.Model, provider |-> record.Provider,
     promptTokens |-> record.PromptTokens,
     completionTokens |-> record.CompletionTokens,
     requestId |-> record.RequestID, premium |-> record.Premium,
     status |-> record.Status]

\* the goroutine up to the POST: it returns without a commerceEndpoint, and
\* it returns for a record whose status is not "success"
UsageStart(r) ==
    /\ req[r].gpc = "start"
    /\ req' = [req EXCEPT ![r] =
                  IF commerceEndpoint = "" THEN [@ EXCEPT !.gpc = "done"]
                  ELSE IF req[r].usage.Status # "success" THEN [@ EXCEPT !.gpc = "done"]
                  ELSE [@ EXCEPT !.gpc = "post",
                                 !.tablePrice = GetPrice(mcCommitted, req[r].usage.Model)]]
    /\ UNCHANGED balanceCache
    /\ GwFrame

\* client.Do(req): the POST to /api/v1/billing/usage reaches the sink or
\* not; either way the goroutine ends
UsagePost(r) ==
    /\ req[r].gpc = "post"
    /\ \E delivered \in BOOLEAN :
         req' = [req EXCEPT ![r] =
                    [@ EXCEPT !.gpc = "done",
                              !.posted = Append(@, [payload |-> Payload(req[r].usage),
                                                    delivered |-> delivered])]]
    /\ UNCHANGED balanceCache
    /\ GwFrame

\* The handler has returned and the goroutine has ended: the next request.
NextRequest(r) ==
    /\ req[r].pc = "responded"
    /\ req[r].gpc \in {"none", "done"}
    /\ req' = [req EXCEPT ![r] = IdleRequest]
    /\ UNCHANGED balanceCache
    /\ GwFrame

\* Time passes. A call of the balance service ends within its 10 s timeout,
\* which is below the clock's step: the clock stands still while a request
\* is between sending the GET and storing the answer.
Tick ==
    /\ now + TickSeconds <= MaxTime
    /\ \A r \in Requests : req[r].pc \notin {"commerce_call", "store"}
    /\ now' = now + TickSeconds
    /\ UNCHANGED <<cfgVars, req, balanceCache, commerceEndpoint, libVars>>

----------------------------------------------------------------------------
\* The balance gate under concurrent requests of one user: two requests from
\* authentication to the return of resolveProviderForUser.

UserTokens == {jwtAliceFunded, jwtAliceEmpty, hkAlice}
GateModels == {GPT, zen4_m}

NextBalance ==
    \/ \E r \in Requests : Arrive(r, UserTokens, GateModels, {"ChatCompletions"})
    \/ \E r \in Requests : AuthIAMKey(r)
    \/ \E r \in Requests : IAMKeyLookup(r)
    \/ \E r \in Requests : AuthJwt(r)
    \/ \E r \in Requests : GateRoute(r)
    \/ \E r \in Requests : GateProvider(r)
    \/ \E r \in Requests : BalanceCacheHit(r)
    \/ \E r \in Requests : BalanceCacheMiss(r)
    \/ \E r \in Requests : CommerceResponds(r)
    \/ \E r \in Requests : BalanceStore(r)
    \/ Tick

SpecBalance == InitGateway /\ [][NextBalance]_vars

\* The handlers from the arrival of a request to the response and the end of
\* the usage goroutine, one request after the other.

Serving == {"r1"}

NextHandler ==
    \/ \E r \in Serving : Arrive(r, Tokens, RequestModels, Handlers)
    \/ \E r \in Serving : ArriveMalformed(r)
    \/ \E r \in Serving : AuthIAMKey(r)
    \/ \E r \in Serving : IAMKeyLookup(r)
    \/ \E r \in Serving : AuthJwt(r)
    \/ \E r \in Serving : AuthProviderKey(r)
    \/ \E r \in Serving : GateRoute(r)
    \/ \E r \in Serving : GateProvider(r)
    \/ \E r \in Serving : BalanceCacheHit(r)
    \/ \E r \in Serving : BalanceCacheMiss(r)
    \/ \E r \in Serving : CommerceResponds(r)
    \/ \E r \in Serving : BalanceStore(r)
    \/ \E r \in Serving : ReadRoute(r)
    \/ \E r \in Serving : Prepare(r)
    \/ \E r \in Serving : UpstreamReturns(r)
    \/ \E r \in Serving : RecordUsage(r)
    \/ \E r \in Serving : SkipUsage(r)
    \/ \E r \in Serving : WriteResponse(r)
    \/ \E r \in Serving : UsageStart(r)
    \/ \E r \in Serving : UsagePost(r)
    \/ \E r \in Serving : NextRequest(r)
    \/ Tick

SpecHandler == InitGateway /\ [][NextHandler]_vars

\* Billing while the configuration changes: requests of one funded user for
\* one model, one after the other, next to Reload and the live pricing
\* refresh.

NextBilling ==
    \/ \E r \in Serving : Arrive(r, {jwtAliceFunded}, {GPT}, {"ChatCompletions"})
    \/ \E r \in Serving : AuthJwt(r)
    \/ \E r \in Serving : GateRoute(r)
    \/ \E r \in Serving : GateProvider(r)
    \/ \E r \in Serving : BalanceCacheHit(r)
    \/ \E r \in Serving : BalanceCacheMiss(r)
    \/ \E r \in Serving : CommerceResponds(r)
    \/ \E r \in Serving : BalanceStore(r)
    \/ \E r \in Serving : ReadRoute(r)
    \/ \E r \in Serving : Prepare(r)
    \/ \E r \in Serving : UpstreamReturns(r)
    \/ \E r \in Serving : RecordUsage(r)
    \/ \E r \in Serving : WriteResponse(r)
    \/ \E r \in Serving : UsageStart(r)
    \/ \E r \in Serving : UsagePost(r)
    \/ \E r \in Serving : NextRequest(r)
    \/ ReloadCall
    \/ ReloadLock
    \/ ReloadSetRoutes
    \/ ReloadSetPricing
    \/ ReloadSetPrompts
    \/ ReloadSetFeatures
    \/ ReloadSetDefaults
    \/ ReloadSetService
    \/ ReloadUnlock
    \/ ReloadReadLive
    \/ ReloadSpawn
    \/ FetchStart
    \/ FetchGet
    \/ FetchLock
    \/ FetchMerge
    \/ FetchUnlock

SpecBilling == InitGateway /\ [][NextBilling]_vars

----------------------------------------------------------------------------
\* calculateCostCents on its own: one call for each model and token counts.

CostModels == {GPT, zen4_m, o3, openai_o3, zen_x}
TokenValues == {0, 1, 2, 1000, 100000}

InitCost ==
    /\ GatewayStart
    /\ cost \in [model : CostModels, promptTokens : TokenValues,
                 completionTokens : TokenValues, done : {FALSE}, result : {0}]
    /\ aw = NoWriter
    /\ ks = NoKms
    /\ zap = NoZap
    /\ bg = NoTask
    /\ ip = NoChat

Calculate ==
    /\ ~cost.done
    /\ cost' = [cost EXCEPT !.done = TRUE,
                            !.result = calculateCostCents(cost.model, cost.promptTokens,
                                                          cost.completionTokens)]
    /\ UNCHANGED <<cfgVars, req, balanceCache, now, commerceEndpoint, aw, ks, zap, bg, ip>>

NextCost == Calculate

SpecCost == InitCost /\ [][NextCost]_vars

----------------------------------------------------------------------------
\* AnthropicWriter (src/unnamed/part_015:84-238): the io.Writer the model
\* provider writes its chunks to, and the SSE frames it puts on the
\* connection.

Chars(str) ==
    CASE str = "message" -> <<"m","e","s","s","a","g","e">>
      [] str = "reason" -> <<"r","e","a","s","o","n">>

\* []byte("event: message\ndata: ") and []byte("event: reason\ndata: ")
EventPrefix(name) ==
    <<"e","v","e","n","t",":"," ">> \o Chars(name)
        \o <<"\n","d","a","t","a",":"," ">>

\* []byte("\n\n")
EventSuffix == <<"\n", "\n">>

\* bytes.TrimPrefix
TrimPrefix(b, prefix) == IF HasPrefix(b, prefix) THEN DropPrefix(b, Len(prefix)) ELSE b

HasSuffix(b, suffix) ==
    Len(b) >= Len(suffix) /\ SubSeq(b, Len(b) - Len(suffix) + 1, Len(b)) = suffix

\* bytes.TrimSuffix
TrimSuffix(b, suffix) ==
    IF HasSuffix(b, suffix) THEN SubSeq(b, 1, Len(b) - Len(suffix)) ELSE b

\* content = string(bytes.TrimSuffix(bytes.TrimPrefix(p, prefix), suffix))
Unwrap_KeepsSuffix(b, prefix) == TrimPrefix(b, prefix)

Unwrap(b, prefix) == TrimSuffix(TrimPrefix(b, prefix), EventSuffix)

\* The chunks a provider writes: text in the envelope of the internal model
\* client (kind "message"), reasoning text in its envelope (kind "reason"),
\* or bare text (kind "raw"). x is the text the provider put in.
Hel == <<"H","e","l">>
lo == <<"l","o">>
Hello == <<"H","e","l","l","o">>

Chunk(kind, x) ==
    [kind |-> kind, x |-> x,
     p |-> IF kind = "raw" THEN x ELSE EventPrefix(kind) \o x \o EventSuffix]

WriterChunks ==
    {Chunk("message", Hel), Chunk("message", lo), Chunk("message", << >>),
     Chunk("reason", lo), Chunk("raw", lo)}

\* w.Cleaner.CleanString(string(p)): the Cleaner is not part of the sources
\* at hand; it returns the text, a part of it, or nothing
CleanString(str) == {str, << >>} \cup {SubSeq(str, 2, Len(str))}

\* an SSE frame: the event name and what its data carries
Frame(event, text, outputTokens) ==
    [event |-> event, text |-> text, output_tokens |-> outputTokens]

\* &AnthropicWriter{Buffer: []byte{}, Stream: request.Stream, ...}, with the
\* connection: the frames on the wire, whether a write to it has failed,
\* the chunks written so far with what each came to, and the Close call
NewWriter(stream) ==
    [Stream |-> stream, StreamSent |-> FALSE, headerSent |-> FALSE,
     Buffer |-> << >>, MessageBuf |-> << >>,
     wire |-> << >>, writeFailed |-> FALSE, written |-> << >>,
     closed |-> FALSE, closeTokens |-> 0, closeErr |-> FALSE]

\* the frames Write is to emit for a chunk with this content: the header
\* events on the first content chunk, then the delta
HeaderFrames_EveryChunk(w) ==
    <<Frame("message_start", << >>, 0), Frame("content_block_start", << >>, 0)>>

HeaderFrames(w) ==
    IF ~w.headerSent
    THEN <<Frame("message_start", << >>, 0), Frame("content_block_start", << >>, 0)>>
    ELSE << >>

WriteFrames(w, content) ==
    HeaderFrames(w) \o <<Frame("content_block_delta", content, 0)>>

\* Write(p): content is what the chunk comes to (for a bare chunk, what the
\* Cleaner returned); failAt is the writeSSE call on which the connection
\* fails (0: none does). A connection that has failed once fails on every
\* later write.
WriterWriteResult(w, c, content, failAt) ==
    LET buffered ==
            [w EXCEPT !.MessageBuf =
                          IF c.kind = "reason" THEN @ ELSE @ \o content,
                      !.Buffer = @ \o c.p]
        frames == WriteFrames(w, content)
        entry == [chunk |-> c, content |-> content, afterClose |-> w.closed]
    IN  IF ~w.Stream \/ content = << >>
        THEN [buffered EXCEPT !.written = Append(@, entry @@ [err |-> FALSE])]
        ELSE IF failAt = 0
        THEN [buffered EXCEPT !.headerSent = TRUE, !.StreamSent = TRUE,
                              !.wire = @ \o frames,
                              !.written = Append(@, entry @@ [err |-> FALSE])]
        ELSE [buffered EXCEPT !.headerSent = TRUE,
                              !.wire = @ \o SubSeq(frames, 1, failAt - 1),
                              !.writeFailed = TRUE,
                              !.written = Append(@, entry @@ [err |-> TRUE])]

ChunkContents(c) ==
    IF c.kind = "raw" THEN CleanString(c.p) ELSE {Unwrap(c.p, EventPrefix(c.kind))}

WriterWrite ==
    /\ aw # NoWriter
    /\ Len(aw.written) < MaxChunks
    /\ \E c \in WriterChunks : \E content \in ChunkContents(c) :
         \E failAt \in 0..Len(WriteFrames(aw, content)) :
            /\ (~aw.Stream \/ content = << >>) => failAt = 0
            /\ (aw.Stream /\ content # << >> /\ aw.writeFailed) => failAt = 1
            /\ aw' = WriterWriteResult(aw, c, content, failAt)
    /\ UNCHANGED <<cfgVars, req, balanceCache, now, commerceEndpoint, cost, ks, zap, bg, ip>>

\* the frames Close emits
CloseFrames(completionTokens) ==
    <<Frame("content_block_stop", << >>, 0),
      Frame("message_delta", << >>, completionTokens),
      Frame("message_stop", << >>, 0)>>

\* Close(promptTokens, completionTokens, totalTokens), called once by the
\* handler when QueryText has returned
WriterClose ==
    /\ aw # NoWriter
    /\ ~aw.closed
    /\ \E tc \in TokenCounts \ {<<0, 0>>} : \E failAt \in 0..3 :
         /\ (~aw.Stream \/ ~aw.StreamSent) => failAt = 0
         /\ (aw.Stream /\ aw.StreamSent /\ aw.writeFailed) => failAt = 1
         /\ aw' = IF ~aw.Stream \/ ~aw.StreamSent
                  THEN [aw EXCEPT !.closed = TRUE, !.closeTokens = tc[2]]
                  ELSE IF failAt = 0
                  THEN [aw EXCEPT !.closed = TRUE, !.closeTokens = tc[2],
                                  !.wire = @ \o CloseFrames(tc[2])]
                  ELSE [aw EXCEPT !.closed = TRUE, !.closeTokens = tc[2],
                                  !.wire = @ \o SubSeq(CloseFrames(tc[2]), 1, failAt - 1),
                                  !.writeFailed = TRUE, !.closeErr = TRUE]
    /\ UNCHANGED <<cfgVars, req, balanceCache, now, commerceEndpoint, cost, ks, zap, bg, ip>>

\* MessageString()
MessageString(w) == w.MessageBuf

InitWriter ==
    /\ GatewayStart
    /\ cost = NoCall
    /\ aw \in {NewWriter(stream) : stream \in BOOLEAN}
    /\ ks = NoKms
    /\ zap = NoZap
    /\ bg = NoTask
    /\ ip = NoChat

NextWriter ==
    \/ WriterWrite
    \/ WriterClose

SpecWriter == InitWriter /\ [][NextWriter]_vars

----------------------------------------------------------------------------
\* The KMS client (src/object/kms.go): getSecret with its cache, and
\* ResolveProviderSecret. Secret names, project ids and field values are
\* character sequences.

\* kmsSecTTL = 5 * time.Minute, in seconds
kmsSecTTL == 300

kmsScheme == <<"k","m","s",":","/","/">>
kmsProjectTag == <<"k","m","s","-","p","r","o","j","e","c","t",":">>

\* strings.Split(s, "\n")
RECURSIVE SplitLines(_)
SplitLines(str) ==
    IF \A i \in 1..Len(str) : str[i] # "\n"
    THEN <<str>>
    ELSE LET k == CHOOSE i \in 1..Len(str) :
                      str[i] = "\n" /\ \A j \in 1..(i - 1) : str[j] # "\n"
         IN  <<SubSeq(str, 1, k - 1)>> \o SplitLines(SubSeq(str, k + 1, Len(str)))

\* the value the secret store holds for a name in a project
StoredValue(projectID, name) == <<"#">> \o projectID \o <<"#">> \o name

\* the 30 s a cached access token must still have to run to be reused
tokenRefreshBuffer == 30

\* ExpiresIn of a login response, in seconds
ExpiresInValues == {30, 60}

\* what the universal-auth login may come to: a failure (transport error,
\* status other than 200, undecodable body) or a token with its lifetime
LoginOutcomes ==
    {[ok |-> FALSE, expiresIn |-> 0]} \cup {[ok |-> TRUE, expiresIn |-> e] : e \in ExpiresInValues}

\* time.Now().Add(30*time.Second).Before(c.tokenExpiresAt)
TokenValid_UntilExpiry(k, t) == k.accessToken # 0 /\ t < k.tokenExpiresAt

TokenValid(k, t) == k.accessToken # 0 /\ t + tokenRefreshBuffer < k.tokenExpiresAt

\* getAuthToken() at time t: the client afterwards and the error. Access
\* tokens are numbered by the login that issued them, 0 is the empty
\* string; auths keeps what each call found and did.
getAuthToken(k, login, t) ==
    LET seen == [at |-> t, tokenBefore |-> k.accessToken,
                 expiryBefore |-> k.tokenExpiresAt]
        Done(k2, did, err, token) ==
            [k |-> [k2 EXCEPT !.auths = Append(@, seen @@
                        [login |-> did, err |-> err, returned |-> token,
                         tokenAfter |-> k2.accessToken,
                         expiryAfter |-> k2.tokenExpiresAt])],
             err |-> err]
    IN  IF k.auth = "service-token" THEN Done(k, "none", FALSE, "serviceToken")
        ELSE IF TokenValid(k, t) THEN Done(k, "none", FALSE, k.accessToken)
        ELSE IF ~login.ok
        THEN Done([k EXCEPT !.logins = @ + 1], "failed", TRUE, 0)
        ELSE Done([k EXCEPT !.logins = @ + 1, !.accessToken = k.logins + 1,
                            !.tokenExpiresAt = t + login.expiresIn],
                  "ok", FALSE, k.logins + 1)

\* what one fetch may come to: the login, should getAuthToken make one, and
\* the GET (a value, or a transport error, a status other than 200 or a bad
\* body)
KmsFetchOutcomes == [login : LoginOutcomes, get : {"ok", "store_error"}]

NoFetch == [login |-> [ok |-> FALSE, expiresIn |-> 0], get |-> "store_error"]

\* time.Since(entry.fetchedAt) < kmsSecTTL
SecretFresh(entry, t) == t - entry.fetchedAt < kmsSecTTL

\* cacheKey := projectID + "/" + name
CacheKey(projectID, name) == projectID \o <<"/">> \o name

\* getSecret(name, projectID) at time t on client state k: the value or the
\* error, the cache, the answers of the store and the GETs sent to it
\* afterwards
getSecret(k, name, projectID, outcome, t) ==
    LET cacheKey == CacheKey(projectID, name)
        Asked(k2, value, err, cached) ==
            [k2 EXCEPT !.asked = Append(@, [name |-> name, projectID |-> projectID,
                                            value |-> value, err |-> err,
                                            cached |-> cached, at |-> t])]
        Sent(k2) == [k2 EXCEPT !.gets = Append(@, [name |-> name, projectID |-> projectID])]
        auth == getAuthToken(k, outcome.login, t)
    IN  IF cacheKey \in DOMAIN k.secrets /\ SecretFresh(k.secrets[cacheKey], t)
        THEN [k |-> Asked(k, k.secrets[cacheKey].value, FALSE, TRUE),
              value |-> k.secrets[cacheKey].value, err |-> FALSE]
        ELSE IF auth.err
        THEN [k |-> Asked(auth.k, << >>, TRUE, FALSE), value |-> << >>, err |-> TRUE]
        ELSE IF outcome.get = "store_error"
        THEN [k |-> Asked(Sent(auth.k), << >>, TRUE, FALSE), value |-> << >>, err |-> TRUE]
        ELSE LET value == StoredValue(projectID, name)
                 stored == [Sent(auth.k) EXCEPT
                              !.secrets = Put(@, cacheKey, [value |-> value, fetchedAt |-> t]),
                              !.fetched = @ \cup {[name |-> name, projectID |-> projectID,
                                                   value |-> value, at |-> t]}]
             IN  [k |-> Asked(stored, value, FALSE, FALSE), value |-> value, err |-> FALSE]

\* the project of a provider: kms.projectID, or what follows "kms-project:"
\* on the first line of ConfigText that starts with it
RECURSIVE FirstProjectLine(_, _)
FirstProjectLine(lines, default) ==
    IF lines = << >> THEN default
    ELSE LET line == TrimSpace(Head(lines))
         IN  IF HasPrefix(line, kmsProjectTag)
             THEN TrimPrefix(line, kmsProjectTag)
             ELSE FirstProjectLine(Tail(lines), default)

ProjectFor_DefaultFirst(k, provider) ==
    IF k.projectID # << >> THEN k.projectID
    ELSE FirstProjectLine(SplitLines(provider.ConfigText), k.projectID)

ProjectFor(k, provider) ==
    IF provider.ConfigText # << >>
    THEN FirstProjectLine(SplitLines(provider.ConfigText), k.projectID)
    ELSE k.projectID

\* resolveField
resolveField(k, currentValue, projectID, outcome, t) ==
    IF ~HasPrefix(currentValue, kmsScheme)
    THEN [k |-> k, value |-> currentValue, err |-> FALSE]
    ELSE LET secretName == TrimPrefix(currentValue, kmsScheme)
         IN  IF secretName = << >>
             THEN [k |-> k, value |-> << >>, err |-> TRUE]
             ELSE getSecret(k, secretName, projectID, outcome, t)

\* ResolveProviderSecret(provider) when kms != nil, with the outcome of each
\* of the three fetches should it be made: the client state, the provider
\* and the error afterwards
ResolveProviderSecret_AssignsAsResolved(k, provider, outcomes, t) ==
    LET hasKmsRef == \/ HasPrefix(provider.ClientSecret, kmsScheme)
                     \/ HasPrefix(provider.UserKey, kmsScheme)
                     \/ HasPrefix(provider.SignKey, kmsScheme)
        projectID == ProjectFor(k, provider)
        r1 == resolveField(k, provider.ClientSecret, projectID, outcomes[1], t)
        r2 == resolveField(r1.k, provider.UserKey, projectID, outcomes[2], t)
        r3 == resolveField(r2.k, provider.SignKey, projectID, outcomes[3], t)
        p1 == [provider EXCEPT !.ClientSecret = r1.value]
        p2 == [p1 EXCEPT !.UserKey = r2.value]
    IN  IF ~k.configured \/ ~hasKmsRef
        THEN [k |-> k, provider |-> provider, err |-> FALSE]
        ELSE IF projectID = << >> THEN [k |-> k, provider |-> provider, err |-> TRUE]
        ELSE IF r1.err THEN [k |-> r1.k, provider |-> provider, err |-> TRUE]
        ELSE IF r2.err THEN [k |-> r2.k, provider |-> p1, err |-> TRUE]
        ELSE IF r3.err THEN [k |-> r3.k, provider |-> p2, err |-> TRUE]
        ELSE [k |-> r3.k, provider |-> [p2 EXCEPT !.SignKey = r3.value],
              err |-> FALSE]

ResolveProviderSecret(k, provider, outcomes, t) ==
    LET hasKmsRef == \/ HasPrefix(provider.ClientSecret, kmsScheme)
                     \/ HasPrefix(provider.UserKey, kmsScheme)
                     \/ HasPrefix(provider.SignKey, kmsScheme)
        projectID == ProjectFor(k, provider)
        r1 == resolveField(k, provider.ClientSecret, projectID, outcomes[1], t)
        r2 == resolveField(r1.k, provider.UserKey, projectID, outcomes[2], t)
        r3 == resolveField(r2.k, provider.SignKey, projectID, outcomes[3], t)
    IN  IF ~k.configured \/ ~hasKmsRef
        THEN [k |-> k, provider |-> provider, err |-> FALSE]
        ELSE IF projectID = << >> THEN [k |-> k, provider |-> provider, err |-> TRUE]
        ELSE IF r1.err THEN [k |-> r1.k, provider |-> provider, err |-> TRUE]
        ELSE IF r2.err THEN [k |-> r2.k, provider |-> provider, err |-> TRUE]
        ELSE IF r3.err THEN [k |-> r3.k, provider |-> provider, err |-> TRUE]
        ELSE [k |-> r3.k,
              provider |-> [provider EXCEPT !.ClientSecret = r1.value,
                                            !.UserKey = r2.value,
                                            !.SignKey = r3.value],
              err |-> FALSE]

\* Providers. ConfigText is built from lines; `declared` is the project the
\* kms-project line declares, if there is such a line.
Ref(name) == kmsScheme \o name
ProjectLine(id) == <<" ">> \o kmsProjectTag \o id \o <<" ">>
Joined(a, b) == a \o <<"\n">> \o b

KmsProviders ==
    {[ClientSecret |-> Ref(<<"A">>), UserKey |-> Ref(<<"B">>), SignKey |-> <<"p">>,
      ConfigText |-> << >>, declared |-> [has |-> FALSE]],
     [ClientSecret |-> Ref(<<"A">>), UserKey |-> << >>, SignKey |-> Ref(<<"A">>),
      ConfigText |-> Joined(<<"r",":","x">>, ProjectLine(<<"o">>)),
      declared |-> [has |-> TRUE, id |-> <<"o">>]],
     [ClientSecret |-> <<"p">>, UserKey |-> Ref(<<"B">>), SignKey |-> Ref(<< >>),
      ConfigText |-> Joined(ProjectLine(<<"o">>), ProjectLine(<<"q">>)),
      declared |-> [has |-> TRUE, id |-> <<"o">>]],
     [ClientSecret |-> Ref(<<"A">>), UserKey |-> <<"p">>, SignKey |-> << >>,
      ConfigText |-> ProjectLine(<< >>), declared |-> [has |-> TRUE, id |-> << >>]],
     [ClientSecret |-> Ref(<<"A">>), UserKey |-> Ref(<<"B">>), SignKey |-> << >>,
      ConfigText |-> <<"r",":","x">>, declared |-> [has |-> FALSE]],
     [ClientSecret |-> <<"p">>, UserKey |-> << >>, SignKey |-> <<"s">>,
      ConfigText |-> ProjectLine(<<"o">>), declared |-> [has |-> TRUE, id |-> <<"o">>]],
     [ClientSecret |-> Ref(<<"o","/","A">>), UserKey |-> << >>, SignKey |-> << >>,
      ConfigText |-> << >>, declared |-> [has |-> FALSE]],
     [ClientSecret |-> << >>, UserKey |-> << >>, SignKey |-> Ref(<<"A">>),
      ConfigText |-> ProjectLine(<<"d","/","o">>),
      declared |-> [has |-> TRUE, id |-> <<"d","/","o">>]]}

\* *Provider as ResolveProviderSecret sees it
ProviderFields(pv) ==
    [ClientSecret |-> pv.ClientSecret, UserKey |-> pv.UserKey,
     SignKey |-> pv.SignKey, ConfigText |-> pv.ConfigText]

\* how initKMS left the client: kms == nil, a service token, or a client id
\* for universal auth
KmsAuthModes == {"none", "service-token", "universal-auth"}

\* the client after initKMS (configured: kms != nil; projectID:
\* KMS_PROJECT_ID; no access token yet), an empty cache, and one provider
\* about to be resolved. asked, gets and auths are the getSecret calls, the
\* GETs and the getAuthToken calls of the current ResolveProviderSecret
\* call; fetched is every answer the store has given; logins counts the
\* logins.
KmsStart(auth, projectID, pv) ==
    [auth |-> auth, configured |-> auth # "none", projectID |-> projectID,
     accessToken |-> 0, tokenExpiresAt |-> 0, logins |-> 0,
     secrets |-> EmptyMap, fetched |-> {},
     asked |-> << >>, gets |-> << >>, auths |-> << >>,
     given |-> pv, provider |-> ProviderFields(pv),
     pc |-> "call", err |-> FALSE, resolves |-> 0]

InitKms ==
    /\ GatewayStart
    /\ cost = NoCall
    /\ aw = NoWriter
    /\ zap = NoZap
    /\ bg = NoTask
    /\ ip = NoChat
    /\ ks \in {KmsStart(a, d, pv) : a \in KmsAuthModes, d \in {<< >>, <<"d">>},
                                    pv \in KmsProviders}

KmsFrame ==
    UNCHANGED <<cfgVars, req, balanceCache, commerceEndpoint, cost, aw, zap, bg, ip>>

\* ResolveProviderSecret(provider)
Resolve ==
    /\ ks # NoKms
    /\ ks.pc = "call"
    /\ \E outcomes \in [1..3 -> KmsFetchOutcomes] :
         LET res == ResolveProviderSecret(ks, ks.provider, outcomes, now)
             fields == <<ks.provider.ClientSecret, ks.provider.UserKey,
                         ks.provider.SignKey>>
         IN  \* a field that is no reference is not fetched: no outcome
             /\ \A i \in 1..3 :
                   ~HasPrefix(fields[i], kmsScheme) => outcomes[i] = NoFetch
             /\ ks' = [res.k EXCEPT !.provider = res.provider, !.err = res.err,
                                    !.pc = "returned", !.resolves = @ + 1]
    /\ UNCHANGED now
    /\ KmsFrame

\* the next provider to resolve
NextProvider ==
    /\ ks # NoKms
    /\ ks.pc = "returned"
    /\ ks.resolves < MaxResolves
    /\ \E pv \in KmsProviders :
         ks' = [ks EXCEPT !.given = pv, !.provider = ProviderFields(pv),
                          !.asked = << >>, !.gets = << >>, !.auths = << >>,
                          !.pc = "call", !.err = FALSE]
    /\ UNCHANGED now
    /\ KmsFrame

\* the cache's TTL passes
KmsTick ==
    /\ ks # NoKms
    /\ now < kmsSecTTL
    /\ now' = now + kmsSecTTL
    /\ UNCHANGED ks
    /\ KmsFrame

NextKms ==
    \/ Resolve
    \/ NextProvider
    \/ KmsTick

SpecKms == InitKms /\ [][NextKms]_vars

\* getAuthToken on its own, call after call while the clock advances.

InitKmsAuth ==
    /\ GatewayStart
    /\ cost = NoCall
    /\ aw = NoWriter
    /\ zap = NoZap
    /\ bg = NoTask
    /\ ip = NoChat
    /\ \E a \in {"service-token", "universal-auth"}, pv \in KmsProviders :
         ks = KmsStart(a, <<"d">>, pv)

\* c.getAuthToken()
AuthCall ==
    /\ ks # NoKms
    /\ ks.logins < MaxLogins
    /\ \E login \in LoginOutcomes :
         ks' = getAuthToken([ks EXCEPT !.auths = << >>], login, now).k
    /\ UNCHANGED now
    /\ KmsFrame

NextKmsAuth ==
    \/ AuthCall
    \/ Tick

SpecKmsAuth == InitKmsAuth /\ [][NextKmsAuth]_vars

----------------------------------------------------------------------------
\* Reload of an unchanged file: InitModelConfig has loaded the file at
\* configPath and Reload is called again and again while the file stays as it
\* is. rlNew keeps the file and the tables the previous load built from it.

ReloadFiles == ConfigFiles \cup {FileChain, FileCase}

Loaded(file, c) == [file |-> file, tables |-> c]

InitReload ==
    \E f \in ReloadFiles : \E c \in ApplyResults(f) :
        /\ routes = c.routes
        /\ pricing = c.pricing
        /\ prompts = c.prompts
        /\ features = c.features
        /\ defaults = c.defaults
        /\ pricingURL = c.pricingURL
        /\ pricingTTL = c.pricingTTL
        /\ aliasPricingMap = c.aliasPricingMap
        /\ bgRunning = c.features.live_mode
        /\ mcCommitted = Config(c.routes, c.pricing, c.prompts, c.features, c.defaults)
        /\ pricingRefreshed = FALSE
        /\ mu = [writer |-> "none", readers |-> {}]
        /\ rlpc = "idle"
        /\ rlNew = Loaded(f, c)
        /\ reloadCount = 0
        /\ reloadFile = "ok"
        /\ reloadResult = "none"
        /\ fpc = "idle"
        /\ fResp = << >>
        /\ fetchQueued = 0
        /\ rdpc = "idle"
        /\ rdKind = "none"
        /\ rdArg = << >>
        /\ rdResult = NoResult
        /\ rdCands = {}
        /\ req = [r \in Requests |-> IdleRequest]
        /\ balanceCache = EmptyMap
        /\ now = 0
        /\ commerceEndpoint = ""
        /\ LibIdle

\* Reload, from loadFromFile to its return, while no refresh holds the lock
ReloadSame ==
    /\ rlpc = "idle"
    /\ reloadCount < MaxReloads
    /\ WriteLockFree(mu)
    /\ \E c \in ApplyResults(rlNew.file) :
         /\ routes' = c.routes
         /\ pricing' = c.pricing
         /\ prompts' = c.prompts
         /\ features' = c.features
         /\ defaults' = c.defaults
         /\ pricingURL' = c.pricingURL
         /\ pricingTTL' = c.pricingTTL
         /\ aliasPricingMap' = c.aliasPricingMap
         /\ mcCommitted' = Config(c.routes, c.pricing, c.prompts, c.features, c.defaults)
         /\ rlNew' = Loaded(rlNew.file, c)
         /\ fetchQueued' = IF c.features.live_mode /\ fetchQueued < MaxQueued
                           THEN fetchQueued + 1 ELSE fetchQueued
    /\ reloadCount' = reloadCount + 1
    /\ reloadResult' = "ok"
    /\ UNCHANGED <<pricingRefreshed, mu, rlpc, reloadFile, fetchVars, bgRunning,
                   readerVars>>
    /\ UNCHANGED gwVars

NextReload ==
    \/ ReloadSame
    \/ BackgroundTick
    \/ FetchStart
    \/ FetchGet
    \/ FetchLock
    \/ FetchMerge
    \/ FetchUnlock

SpecReload == InitReload /\ [][NextReload]_vars

----------------------------------------------------------------------------
\* ZAP-over-HTTP dispatch (ApiController.ZapDispatch): one POST /zap.

\* A member of the JSON object in the body, as it is written: a JSON string
\* with the text `text`, or (str = FALSE) a value of another JSON type. A
\* member that is left out is the empty string.
Str(text) == [str |-> TRUE, text |-> text]
NotStr(text) == [str |-> FALSE, text |-> text]

ZapMethods == {"chat.completions", "chat.messages", "models.list", "billing.balance"}

\* what the body may hold under "method" and under "id"
MethodMembers ==
    {Str(m) : m \in ZapMethods \cup {"", "models.delete", "Models.List"}}
        \cup {NotStr("5")}
IdMembers == {Str(""), Str("req-1"), NotStr("7")}

\* "params" of billing.balance: whether it decodes into zapBalanceParams, and
\* its user
alice == <<"hanzo", "/", "alice">>
bob == <<"hanzo", "/", "bob">>
NoParams == [ok |-> TRUE, user |-> << >>]
ParamsValues == {NoParams, [ok |-> FALSE, user |-> << >>],
                 [ok |-> TRUE, user |-> alice], [ok |-> TRUE, user |-> bob]}

\* the credential of the request: the Authorization header without "Bearer ",
\* or else the x-api-key header
ZapTokens == {<< >>, hkAlice, jwtAliceFunded}

\* A request body: bytes that are a JSON text (syntax = "valid") or not; the
\* members are what the sender wrote, readable or not.
ZapBodies ==
    [syntax : {"valid", "invalid"}, method : MethodMembers, id : IdMembers]

\* json.Unmarshal(body, &req) into zapRequest: a body that is not JSON leaves
\* req untouched; a member of the wrong type is skipped, the others are
\* decoded, and an error is returned.
Unmarshal(body) ==
    IF body.syntax = "invalid"
    THEN [err |-> TRUE, req |-> [Method |-> "", ID |-> ""]]
    ELSE [err |-> ~body.method.str \/ ~body.id.str,
          req |-> [Method |-> IF body.method.str THEN body.method.text ELSE "",
                   ID |-> IF body.id.str THEN body.id.text ELSE ""]]

\* the response body: a zapResponse with a result or with an error, or what
\* the delegated REST handler wrote
Response(kind, id, code, user, balance) ==
    [kind |-> kind, id |-> id, code |-> code, user |-> user, balance |-> balance]

respondZap(id, user, balance) == Response("result", id, 0, user, balance)

respondZapError(id, code) == Response("error", id, code, << >>, 0)

\* getUserBalance(userId), as zapBalance sees it: an error or a balance
ZapBalanceOutcomes == {[err |-> TRUE, balance |-> 0], [err |-> FALSE, balance |-> 500]}

\* zapBalance(req)
zapBalance(zreq, params, token, lookup, bal) ==
    IF ~params.ok THEN respondZapError(zreq.ID, -32602)
    ELSE LET userId ==
                IF params.user # << >> THEN params.user
                ELSE IF token # << >> /\ isIAMApiKey(token)
                        /\ ~lookup.err /\ lookup.user # NilUser
                THEN UserKey(lookup.user)
                ELSE << >>
         IN  IF userId = << >> THEN respondZapError(zreq.ID, -32602)
             ELSE IF bal.err THEN respondZapError(zreq.ID, -32000)
             ELSE respondZap(zreq.ID, userId, bal.balance)

\* ZapDispatch with the error codes of the empty and the unknown method
\* exchanged
ZapDispatch_CodesSwapped(body, params, token, lookup, bal) ==
    LET u == Unmarshal(body)
        zreq == u.req
        Reply(h, r) == [handlers |-> h, resp |-> r]
    IN  IF u.err THEN Reply(<< >>, respondZapError(zreq.ID, -32700))
        ELSE IF zreq.Method = "" THEN Reply(<< >>, respondZapError(zreq.ID, -32601))
        ELSE CASE zreq.Method = "chat.completions" ->
                    Reply(<<"ChatCompletions">>, Response("rest", "", 0, << >>, 0))
               [] zreq.Method = "chat.messages" ->
                    Reply(<<"AnthropicMessages">>, Response("rest", "", 0, << >>, 0))
               [] zreq.Method = "models.list" ->
                    Reply(<<"zapListModels">>, respondZap(zreq.ID, << >>, 0))
               [] zreq.Method = "billing.balance" ->
                    Reply(<<"zapBalance">>, zapBalance(zreq, params, token, lookup, bal))
               [] OTHER -> Reply(<< >>, respondZapError(zreq.ID, -32600))

\* ZapDispatch: the handlers it calls and the response body. chat.completions
\* and chat.messages hand params to the REST handler, which writes its own
\* response.
ZapDispatch(body, params, token, lookup, bal) ==
    LET u == Unmarshal(body)
        zreq == u.req
        Reply(h, r) == [handlers |-> h, resp |-> r]
    IN  IF u.err THEN Reply(<< >>, respondZapError(zreq.ID, -32700))
        ELSE IF zreq.Method = "" THEN Reply(<< >>, respondZapError(zreq.ID, -32600))
        ELSE CASE zreq.Method = "chat.completions" ->
                    Reply(<<"ChatCompletions">>, Response("rest", "", 0, << >>, 0))
               [] zreq.Method = "chat.messages" ->
                    Reply(<<"AnthropicMessages">>, Response("rest", "", 0, << >>, 0))
               [] zreq.Method = "models.list" ->
                    Reply(<<"zapListModels">>, respondZap(zreq.ID, << >>, 0))
               [] zreq.Method = "billing.balance" ->
                    Reply(<<"zapBalance">>, zapBalance(zreq, params, token, lookup, bal))
               [] OTHER -> Reply(<< >>, respondZapError(zreq.ID, -32601))

\* a request is about to be dispatched; params and the credential matter to
\* billing.balance only
InitZap ==
    /\ GatewayStart
    /\ cost = NoCall
    /\ aw = NoWriter
    /\ ks = NoKms
    /\ \E body \in ZapBodies, params \in ParamsValues, token \in ZapTokens :
         /\ (body.method # Str("billing.balance") \/ Unmarshal(body).err)
               => (params = NoParams /\ token = << >>)
         /\ zap = [body |-> body, params |-> params, token |-> token,
                   done |-> FALSE, handlers |-> << >>,
                   resp |-> Response("none", "", 0, << >>, 0)]
    /\ bg = NoTask
    /\ ip = NoChat

Dispatch ==
    /\ zap # NoZap
    /\ ~zap.done
    /\ \E lookup \in getUserByAccessKey(zap.token), bal \in ZapBalanceOutcomes :
         LET r == ZapDispatch(zap.body, zap.params, zap.token, lookup, bal)
         IN  zap' = [zap EXCEPT !.done = TRUE, !.handlers = r.handlers,
                                !.resp = r.resp]
    /\ UNCHANGED <<cfgVars, req, balanceCache, now, commerceEndpoint, cost, aw, ks,
                   bg, ip>>

NextZap == Dispatch

SpecZap == InitZap /\ [][NextZap]_vars

----------------------------------------------------------------------------
\* Claims about the configuration subsystem (checked under SpecConfig).

\* C1: Reload is atomic for readers. Every lookup (ResolveRoute, GetPrice,
\* GetIdentityPrompt, ListModels, ListModelsWithUpstream) returns what the
\* lookup yields on one configuration that was in force while it ran: the one
\* before a concurrent Reload or the one after it, never a mix of the two.
C1_ReloadAtomicForReaders ==
    rdpc \in {"unlock", "done"} => rdResult \in rdCands

\* a GetPrice lookup that ran while a Reload had built different tables and
\* was waiting for the write lock: the lookup returned the old price
C1_Witness ==
    /\ rdpc = "done"
    /\ rdKind = "GetPrice"
    /\ rlpc = "lock"
    /\ rdResult \notin LookupResults(rdKind, rdArg,
           Config(rlNew.routes, rlNew.pricing, rlNew.prompts, rlNew.features,
                  rlNew.defaults))

\* C2: a Reload whose file cannot be read or parsed returns an error and
\* leaves routes, pricing, prompts, features and defaults as they were, so
\* every lookup returns after it what it returned before it.
C2_FailedReloadKeepsTables ==
    [][(reloadCount' = reloadCount + 1 /\ reloadFile' # "ok")
          => /\ reloadResult' = "error"
             /\ rlpc' = "idle"
             /\ tableVars' = tableVars
             /\ \A call \in ReaderCalls :
                   LookupResults(call.kind, call.model, mc')
                     = LookupResults(call.kind, call.model, mc)]_vars

\* a Reload has failed on an unparseable file and the tables still serve routes
C2_Witness ==
    /\ reloadResult = "error"
    /\ reloadFile = "unparseable"
    /\ rlpc = "idle"
    /\ DOMAIN routes # {}

\* C3 (as claimed): after a successful first load the route table is never
\* empty, whatever files later Reload calls find.
C3_RouteTableNeverEmpty ==
    mu.writer = "none" => DOMAIN routes # {}

----------------------------------------------------------------------------
\* Claims about the balance gate and the handlers.

\* C4 (checked under SpecHandler): the premium gate of resolveProviderForUser,
\* with S the starter credit. On the balance getUserBalance returned, a
\* balance <= 0 is rejected for every route; 0 < balance <= S is rejected for
\* a premium route and admitted for a non-premium one; a balance > S is
\* admitted for both. A request resolveProviderForUser rejected has its error
\* response and never reaches the upstream model call.
C4_PremiumGateThresholds ==
    \A r \in Requests :
        /\ req[r].source # "none" =>
              /\ req[r].fetched <= 0 => req[r].gate = "error"
              /\ (0 < req[r].fetched /\ req[r].fetched <= StarterCreditDollars) =>
                    req[r].gate = (IF req[r].route.route.premium THEN "error" ELSE "ok")
              /\ req[r].fetched > StarterCreditDollars => req[r].gate = "ok"
        /\ req[r].gate = "error" =>
              /\ req[r].pc = "responded"
              /\ req[r].response = "error"
              /\ req[r].upstream = "none"
        /\ (req[r].upstream # "none" /\ req[r].authUser # NilUser) => req[r].gate = "ok"

\* a premium route and a balance of exactly the starter credit: rejected
C4_Witness ==
    \E r \in Requests :
        /\ req[r].source # "none"
        /\ req[r].route.route.premium
        /\ req[r].fetched = StarterCreditDollars
        /\ req[r].gate = "error"
        /\ req[r].pc = "responded"

\* C5 (checked under SpecHandler): the balance gate fails closed. When
\* getUserBalance finds no cache entry younger than the TTL and the call of
\* the balance service fails (no endpoint, transport error, status other than
\* 200, undecodable body), the step leaves the balance cache unchanged, no
\* balance is compared (an expired entry is not served), resolveProviderForUser
\* rejects the request, and the request gets its error response without an
\* upstream model call.
C5_BalanceGateFailsClosed ==
    [][\A r \in Requests :
          req'[r].callOutcome \notin {"none", "ok"} =>
              /\ req[r].callOutcome = "none" => balanceCache' = balanceCache
              /\ req'[r].source = "none"
              /\ req'[r].gate = "error"
              /\ req'[r].pc = "responded"
              /\ req'[r].response = "error"
              /\ req'[r].upstream = "none"]_vars

\* the call failed while the cache held an expired entry that would have
\* admitted the request
C5_Witness ==
    \E r \in Requests :
        /\ req[r].callOutcome = "transport_error"
        /\ req[r].gate = "error"
        /\ UserKey(req[r].authUser) \in DOMAIN balanceCache
        /\ ~Fresh(balanceCache[UserKey(req[r].authUser)], req[r].calledAt)
        /\ balanceCache[UserKey(req[r].authUser)].balance > StarterCreditDollars

\* C6 (checked under SpecBalance): of the getUserBalance calls for one user
\* that start within one TTL window, at most one obtains the balance from
\* the balance service; the others are served from the cache.
C6_OneServiceCallPerWindow ==
    ~ \E r1, r2 \in Requests :
        /\ r1 # r2
        /\ req[r1].commerceCalls = 1 /\ req[r1].callOutcome = "ok"
        /\ req[r2].commerceCalls = 1 /\ req[r2].callOutcome = "ok"
        /\ UserKey(req[r1].authUser) = UserKey(req[r2].authUser)
        /\ req[r1].calledAt - req[r2].calledAt < balanceCacheTTL
        /\ req[r2].calledAt - req[r1].calledAt < balanceCacheTTL

C8_UsageRecordedOncePerAttempt ==
    \A r \in Requests :
        (req[r].pc = "responded" /\ req[r].err # "bad_request") => req[r].usageCalls = 1

\* C9 (checked under SpecHandler): no request is double counted. At most one
\* submission is posted to the sink for a request, it carries the request's
\* id, and a request whose upstream call failed has no submission with
\* status "success".
C9_NoDoubleCount ==
    \A r \in Requests :
        /\ Len(req[r].posted) <= 1
        /\ \A i \in 1..Len(req[r].posted) :
              /\ req[r].posted[i].payload.requestId = r
              /\ req[r].upstream = "failed" =>
                    req[r].posted[i].payload.status # "success"
        /\ req[r].usageCalls <= 1

\* a successful call whose one submission reached the sink
C9_Witness ==
    \E r \in Requests :
        /\ req[r].upstream = "ok"
        /\ req[r].gpc = "done"
        /\ Len(req[r].posted) = 1
        /\ req[r].posted[1].payload.status = "success"
        /\ req[r].posted[1].delivered

\* C10 (checked under SpecHandler): when the upstream call failed for a
\* caller authenticated by JWT or IAM key, the caller gets an error response
\* and, with the sink configured, a usage record with status "error" and no
\* cost has been posted to the sink by the time recordUsage's goroutine ends.
C10_UpstreamFailureRecorded ==
    \A r \in Requests :
        (/\ req[r].upstream = "failed"
         /\ req[r].authUser # NilUser
         /\ req[r].pc = "responded"
         /\ req[r].gpc = "done"
         /\ commerceEndpoint # "")
            => /\ req[r].response = "error"
               /\ \E i \in 1..Len(req[r].posted) :
                     /\ req[r].posted[i].payload.status = "error"
                     /\ req[r].posted[i].payload.amount = 0

\* C11 (checked under SpecHandler): usage submission never blocks or fails
\* model serving. Once recordUsage was invoked the handler can always write
\* its response, whatever the position of the goroutine (not started, waiting
\* for the sink, ended); and the response of a request whose upstream call
\* returned is decided by that call and by the writing of the response only:
\* no error of the sink reaches the caller.
C11_UsageNeverBlocksServing ==
    \A r \in Requests :
        /\ req[r].pc = "respond" => ENABLED WriteResponse(r)
        /\ (req[r].pc = "responded" /\ req[r].upstream # "none") =>
              /\ req[r].err \in {"none", "upstream_failed", "write_failed"}
              /\ (req[r].response = "ok") =
                    (req[r].upstream = "ok" /\ req[r].err = "none")

\* the caller has its completion while the POST to the sink is unanswered
C11_Witness ==
    \E r \in Requests :
        /\ req[r].pc = "responded"
        /\ req[r].response = "ok"
        /\ req[r].gpc = "post"

----------------------------------------------------------------------------
\* Claims about billing (checked under SpecBilling).

\* C12: the cost of a usage record is the cost formula applied to the price
\* the Pricing Table gives for the record's model when the cost is computed:
\* every payload posted to the sink carries as amount the cost formula's
\* value at ModelConfig.GetPrice(model), in every state reached by reloads
\* and live pricing refreshes.
C12_CostFollowsPricingTable ==
    \A r \in Requests :
        \A i \in 1..Len(req[r].posted) :
            LET pl == req[r].posted[i].payload
            IN  (pl.status = "success" /\ req[r].tablePrice # NoUsage) =>
                    pl.amount = CostOf(req[r].tablePrice, pl.promptTokens,
                                       pl.completionTokens)

\* C13: the cost floor. For every model and all non-negative token counts,
\* calculateCostCents returns at least 1 when promptTokens > 0 or
\* completionTokens > 0, whatever the price (also when the priced amount
\* rounds to 0 cents), returns 0 when both counts are 0, and never returns
\* a negative number.
C13_CostFloor ==
    (cost # NoCall /\ cost.done) =>
        /\ (cost.promptTokens > 0 \/ cost.completionTokens > 0) => cost.result >= 1
        /\ (cost.promptTokens = 0 /\ cost.completionTokens = 0) => cost.result = 0
        /\ cost.result >= 0

\* a call with one prompt token, whose priced amount rounds to 0 cents
C13_Witness ==
    /\ cost # NoCall
    /\ cost.done
    /\ cost.promptTokens = 1
    /\ cost.completionTokens = 0
    /\ CostOf_NoFloor(getModelPrice(cost.model), 1, 0) = 0
    /\ cost.result = 1

----------------------------------------------------------------------------
\* Claims about AnthropicWriter (checked under SpecWriter).

\* the concatenation of a sequence of strings
RECURSIVE Flatten(_)
Flatten(ss) == IF ss = << >> THEN << >> ELSE Head(ss) \o Flatten(Tail(ss))

\* one content_block_delta for each of these chunks, in order
DeltasFor(entries) ==
    [i \in 1..Len(entries) |-> Frame("content_block_delta", entries[i].content, 0)]

CarriesContent(e) == e.content # << >>

\* a streaming writer that was written to and then closed, on a connection
\* that took every write
StreamedAndClosed ==
    /\ aw # NoWriter
    /\ aw.Stream
    /\ aw.closed
    /\ ~aw.writeFailed
    /\ \A i \in 1..Len(aw.written) : ~aw.written[i].afterClose

\* C14 as stated: in streaming mode, n >= 1 non-empty chunks followed by one
\* Close put on the wire exactly message_start, content_block_start, one
\* content_block_delta per chunk in the order written, content_block_stop,
\* message_delta with the output-token count passed to Close, message_stop.
C14_OneDeltaPerChunk ==
    (/\ StreamedAndClosed
     /\ Len(aw.written) >= 1
     /\ \A i \in 1..Len(aw.written) : aw.written[i].chunk.p # << >>)
    => aw.wire = <<Frame("message_start", << >>, 0),
                   Frame("content_block_start", << >>, 0)>>
                 \o DeltasFor(aw.written)
                 \o CloseFrames(aw.closeTokens)

\* C14, amended: in streaming mode, for chunks of which n >= 1 carry
\* non-empty content (the payload inside the envelope, or what the Cleaner
\* leaves of a bare chunk) followed by one Close, on a connection that takes
\* every write, the wire carries exactly message_start, content_block_start,
\* one content_block_delta per content-carrying chunk in the order written,
\* content_block_stop, message_delta with the output-token count passed to
\* Close, message_stop; a chunk whose content is empty puts nothing on the
\* wire, and the two header events appear once.
C14_OneDeltaPerContentChunk ==
    (/\ StreamedAndClosed
     /\ \E i \in 1..Len(aw.written) : CarriesContent(aw.written[i]))
    => aw.wire = <<Frame("message_start", << >>, 0),
                   Frame("content_block_start", << >>, 0)>>
                 \o DeltasFor(SelectSeq(aw.written, CarriesContent))
                 \o CloseFrames(aw.closeTokens)

\* three chunks, the second without content, then Close
C14_Witness ==
    /\ StreamedAndClosed
    /\ Len(aw.written) = 3
    /\ CarriesContent(aw.written[1])
    /\ ~CarriesContent(aw.written[2])
    /\ CarriesContent(aw.written[3])
    /\ Len(aw.wire) = 7
    /\ aw.wire[6].output_tokens = 500

\* C15: a send after finalization is an error. Once Close has been called on
\* a streaming writer, every later Write returns an error and puts no frame
\* on the wire: nothing follows message_stop.
C15_NoSendAfterClose ==
    (aw # NoWriter /\ aw.Stream) =>
        /\ \A i \in 1..Len(aw.written) :
               aw.written[i].afterClose => aw.written[i].err
        /\ \A i \in 1..Len(aw.wire) :
               aw.wire[i].event = "message_stop" => i = Len(aw.wire)

\* what a chunk contributes to the message: the text inside a message
\* envelope, what the Cleaner leaves of a bare chunk, nothing for reasoning
MessageContent(e) ==
    CASE e.chunk.kind = "message" -> e.chunk.x
      [] e.chunk.kind = "raw" -> e.content
      [] e.chunk.kind = "reason" -> << >>

\* C16: with Stream=false, Write puts no frame on the connection, and after
\* any sequence of chunks MessageString() is the in-order concatenation of
\* the chunks' message content, where a chunk
\* "event: message\ndata: <x>\n\n" contributes <x>.
C16_NonStreamingBuffers ==
    (aw # NoWriter /\ ~aw.Stream) =>
        /\ aw.wire = << >>
        /\ MessageString(aw) =
              Flatten([i \in 1..Len(aw.written) |-> MessageContent(aw.written[i])])

\* "Hel" and "lo", each in its envelope, give "Hello"
C16_Witness ==
    /\ aw # NoWriter
    /\ ~aw.Stream
    /\ Len(aw.written) = 2
    /\ aw.written[1].chunk = Chunk("message", Hel)
    /\ aw.written[2].chunk = Chunk("message", lo)
    /\ MessageString(aw) = Hello

----------------------------------------------------------------------------
\* Claims about authentication and routing (checked under SpecHandler).

\* a request whose token has been taken by an authentication path
Dispatched(q) == q.pc \notin {"idle", "auth"} /\ q.err # "bad_request"

\* C17 as stated: every bearer token is handled by exactly one of the three
\* paths; every token of three dot-separated segments whose first two are
\* longer than 10 characters is verified as a JWT, every hk- token is
\* resolved by identity lookup, and only tokens of neither shape are matched
\* as provider keys.
C17_DispatchByShape ==
    \A r \in Requests :
        Dispatched(req[r]) =>
            /\ Cardinality(req[r].authPath) = 1
            /\ isJwtToken(req[r].token) => req[r].authPath = {"jwt"}
            /\ isIAMApiKey(req[r].token) => req[r].authPath = {"iam"}
            /\ (~isJwtToken(req[r].token) /\ ~isIAMApiKey(req[r].token))
                  => req[r].authPath = {"provider"}

\* C17, amended: every bearer token is handled by exactly one of the three
\* paths; every hk- token is resolved by identity lookup, every token
\* without the hk- prefix that has three dot-separated segments whose first
\* two are longer than 10 characters is verified as a JWT, and only tokens
\* of neither shape are matched as provider keys.
C17_DispatchPrefixFirst ==
    \A r \in Requests :
        Dispatched(req[r]) =>
            /\ Cardinality(req[r].authPath) = 1
            /\ isIAMApiKey(req[r].token) => req[r].authPath = {"iam"}
            /\ (isJwtToken(req[r].token) /\ ~isIAMApiKey(req[r].token))
                  => req[r].authPath = {"jwt"}
            /\ (~isJwtToken(req[r].token) /\ ~isIAMApiKey(req[r].token))
                  => req[r].authPath = {"provider"}

\* an hk- key of three long segments went to the identity lookup
C17_Witness ==
    \E r \in Requests :
        /\ Dispatched(req[r])
        /\ isJwtToken(req[r].token)
        /\ isIAMApiKey(req[r].token)
        /\ req[r].authPath = {"iam"}

\* C18: a request authenticated by a provider key bypasses routing and skips
\* the balance gate: the Route Table does not choose or rewrite the upstream
\* model (the requested name is forwarded as given) and no balance lookup
\* is made.
C18_ProviderKeyBypassesRouting ==
    \A r \in Requests :
        (req[r].authPath = {"provider"} /\ req[r].upstream # "none") =>
            /\ req[r].subType.from = "request"
            /\ req[r].source = "none"
            /\ req[r].commerceCalls = 0

\* C19 as stated: a request naming a model the Route Table does not resolve
\* is rejected with the model-unavailable error, never answered with a
\* completion, and causes no provider lookup, balance lookup or upstream
\* call, whatever the credential.
C19_UnknownModelRejected ==
    \A r \in Requests :
        (Dispatched(req[r]) /\ ~resolveModelRoute(req[r].model).found) =>
            /\ req[r].response # "ok"
            /\ req[r].providerLookups = 0
            /\ req[r].source = "none" /\ req[r].commerceCalls = 0
            /\ req[r].upstream = "none"
            /\ req[r].pc \notin {"auth", "iam_call", "route"}
                  => req[r].err \in {"model_not_available", "invalid_jwt",
                                     "iam_key_validation_failed", "invalid_iam_key"}

\* C19, amended: a request of an authenticated user (JWT or hk- key) naming
\* a model the Route Table does not resolve is rejected with the
\* model-unavailable error, never answered with a completion, and causes no
\* provider lookup, balance lookup or upstream call.
C19_UnknownModelRejectedForUsers ==
    \A r \in Requests :
        (/\ req[r].authUser # NilUser
         /\ req[r].pc # "route"
         /\ ~resolveModelRoute(req[r].model).found) =>
            /\ req[r].pc = "responded"
            /\ req[r].response = "error"
            /\ req[r].err = "model_not_available"
            /\ req[r].providerLookups = 0
            /\ req[r].source = "none" /\ req[r].commerceCalls = 0
            /\ req[r].upstream = "none"

C19_Witness ==
    \E r \in Requests :
        /\ req[r].authUser # NilUser
        /\ req[r].authPath = {"iam"}
        /\ ~resolveModelRoute(req[r].model).found
        /\ req[r].pc = "responded"
        /\ req[r].err = "model_not_available"

----------------------------------------------------------------------------
\* Claims about the KMS client (checked under SpecKms).

\* the scope the claim gives a provider: its own when it declares one, the
\* system default otherwise
ScopeOf(k) == IF k.given.declared.has THEN k.given.declared.id ELSE k.projectID

HasRef(pv) ==
    \/ HasPrefix(pv.ClientSecret, kmsScheme)
    \/ HasPrefix(pv.UserKey, kmsScheme)
    \/ HasPrefix(pv.SignKey, kmsScheme)

\* C20: ResolveProviderSecret fetches every kms:// field under one scope:
\* the project of the provider's own kms-project line when it has one, the
\* system default otherwise. When that scope is empty it returns an error,
\* makes no call to the secret store and leaves the fields as they were. A
\* provider that declares its own scope is never resolved under the
\* default scope.
C20_SecretScope ==
    (ks # NoKms /\ ks.pc = "returned") =>
        /\ \A i \in 1..Len(ks.asked) : ks.asked[i].projectID = ScopeOf(ks)
        /\ \A i \in 1..Len(ks.gets) : ks.gets[i].projectID = ScopeOf(ks)
        /\ (ks.configured /\ HasRef(ks.given) /\ ScopeOf(ks) = << >>) =>
              /\ ks.err
              /\ ks.asked = << >> /\ ks.gets = << >>
              /\ ks.provider = ProviderFields(ks.given)
        /\ (ks.given.declared.has /\ ks.given.declared.id # ks.projectID) =>
              \A i \in 1..Len(ks.asked) : ks.asked[i].projectID # ks.projectID

\* a provider with its own scope resolved two fields under it while a
\* system default was set
C20_Witness ==
    /\ ks # NoKms
    /\ ks.pc = "returned"
    /\ ks.projectID = <<"d">>
    /\ ks.given.declared.has
    /\ Len(ks.asked) = 2
    /\ ~ks.err
    /\ ks.provider.ClientSecret = StoredValue(<<"o">>, <<"A">>)

\* C21: tenant isolation of the secret cache. Whatever getSecret calls came
\* before, a call getSecret(name, scope) returns only a value the secret
\* store returned for that same (scope, name) pair no more than the cache
\* TTL earlier; a value fetched under one pair is never returned for
\* another.
C21_CacheIsolation ==
    (ks # NoKms /\ ks.pc = "returned") =>
        \A i \in 1..Len(ks.asked) :
            LET e == ks.asked[i]
            IN  ~e.err =>
                  \E f \in ks.fetched :
                      /\ f.projectID = e.projectID
                      /\ f.name = e.name
                      /\ f.value = e.value
                      /\ e.at - f.at <= kmsSecTTL

----------------------------------------------------------------------------
\* Claims about getAuthToken (checked under SpecKmsAuth).

\* C22: in universal-auth mode getAuthToken reuses the cached access token
\* only when more than 30 seconds remain before its recorded expiry, and
\* otherwise logs in before it returns; a failed login returns an error and
\* leaves the cached token and expiry as they were; in service-token mode
\* it never logs in.
C22_ProactiveRefresh ==
    (ks # NoKms /\ ks.auths # << >>) =>
        LET e == ks.auths[Len(ks.auths)]
        IN  /\ ks.auth = "service-token" => (e.login = "none" /\ ks.logins = 0)
            /\ ks.auth = "universal-auth" =>
                  /\ (e.login = "none") <=>
                        (e.tokenBefore # 0 /\ e.expiryBefore - e.at > 30)
                  /\ e.login = "none" => (~e.err /\ e.returned = e.tokenBefore)
                  /\ e.login = "ok" =>
                        (~e.err /\ e.returned = e.tokenAfter
                                /\ e.tokenAfter # e.tokenBefore)
                  /\ e.login = "failed" =>
                        /\ e.err
                        /\ e.tokenAfter = e.tokenBefore
                        /\ e.expiryAfter = e.expiryBefore

\* a call that found a token with exactly 30 seconds left and logged in
C22_Witness ==
    /\ ks # NoKms
    /\ ks.auths # << >>
    /\ ks.auth = "universal-auth"
    /\ ks.auths[1].tokenBefore # 0
    /\ ks.auths[1].expiryBefore - ks.auths[1].at = 30
    /\ ks.auths[1].login = "ok"

----------------------------------------------------------------------------
\* Claims about live pricing and the lookups (checked under SpecConfig).

\* the names a feed supplies, as the keys they are merged under
FeedKeys(models) == {ToLower(models[i].name) : i \in 1..Len(models)}

\* a step of fetchLivePricing
FetchStep == fpc' # fpc \/ fetchQueued' < fetchQueued

\* C23: a live pricing refresh changes only the pricing entries the feed
\* supplies and keeps every pricing key it found; routes and defaults stay. A
\* refresh that fails (no feed URL, transport error, non-200 status,
\* undecodable body) or whose feed lists no model leaves routes, pricing,
\* defaults and the last-refresh timestamp as they were.
C23_RefreshFrame ==
    [][FetchStep =>
         IF fpc = "merge"
         THEN /\ fResp # << >>
              /\ routes' = routes /\ defaults' = defaults
              /\ DOMAIN pricing \subseteq DOMAIN pricing'
              /\ \A k \in DOMAIN pricing' :
                    (k \notin DOMAIN pricing \/ pricing'[k] # pricing[k])
                        => k \in FeedKeys(fResp)
         ELSE UNCHANGED <<routes, pricing, defaults, pricingRefreshed>>]_vars

\* a refresh has merged a feed that changed a price, and an entry the feed did
\* not name is still in the table
C23_Witness ==
    /\ fpc = "unlock"
    /\ pricingRefreshed
    /\ \E k \in DOMAIN mcCommitted.pricing : pricing[k] # mcCommitted.pricing[k]
    /\ \E k \in DOMAIN mcCommitted.pricing : k \notin FeedKeys(fResp)

\* C24 (as claimed): alias pricing holds whenever the tables can be read. A
\* model a that the loaded file declares with alias_pricing b and no price of
\* its own has GetPrice(a) = GetPrice(b): after the load, after any Reload and
\* after any live refresh, one that changes b's price without naming a
\* included.
C24_AliasPricingHolds ==
    mu.writer = "none" =>
        \A ab \in aliasPricingMap : GetPrice(mc, ab[1]) = GetPrice(mc, ab[2])

\* C25: GetPrice is total, and for a model that has no entry in the pricing
\* table (no price of its own, none taken from an alias) it returns exactly
\* mc.defaults; mc.defaults has a strictly positive input and output price in
\* every state a lookup can read, 1.00/4.00 standing in for what the file
\* omits.
C25_DefaultPrice ==
    /\ mu.writer = "none" =>
          /\ defaults.InputPerMillion > 0 /\ defaults.OutputPerMillion > 0
          /\ \A n \in LookupNames :
                DOMAIN GetPrice(mc, n) = {"InputPerMillion", "OutputPerMillion"}
    /\ (rdKind = "GetPrice" /\ rdpc = "unlock") =>
          /\ DOMAIN rdResult = {"InputPerMillion", "OutputPerMillion"}
          /\ ToLower(rdArg) \notin DOMAIN pricing => rdResult = defaults

\* a GetPrice lookup of a model without a pricing entry has returned the
\* default of a file that declares none: 1.00/4.00
C25_Witness ==
    /\ rdKind = "GetPrice"
    /\ rdpc = "unlock"
    /\ ToLower(rdArg) \notin DOMAIN pricing
    /\ rdResult = [InputPerMillion |-> 100, OutputPerMillion |-> 400]

\* C26 (as claimed, checked under SpecReload): Reload is idempotent. A Reload
\* that finds the file the previous load found builds route, pricing and
\* identity-prompt tables equal to those the previous load built, for every
\* well-formed file.
C26_ReloadIdempotent ==
    [][reloadCount' = reloadCount + 1
          => /\ routes' = rlNew.tables.routes
             /\ pricing' = rlNew.tables.pricing
             /\ prompts' = rlNew.tables.prompts]_vars

\* C27: route lookup is case-insensitive. In every state that loads and
\* reloads reach, a name gets the answer from ResolveRoute that its
\* lower-case form gets (the same route, or not found for both), and so do
\* any two names that differ in letter case only.
C27_ResolveRouteCaseInsensitive ==
    mu.writer = "none" =>
        \A n \in LookupNames : ResolveRoute(mc, n) = ResolveRoute(mc, ToLower(n))

\* after a Reload, "GPT" resolves to the route of "gpt" and "Zen-M", like
\* "zen-m", is not found
C27_Witness ==
    /\ reloadCount > 0 /\ reloadResult = "ok" /\ mu.writer = "none"
    /\ ResolveRoute(mc, GPT).found
    /\ ResolveRoute(mc, GPT) = ResolveRoute(mc, gpt)
    /\ ~ResolveRoute(mc, Zen_M).found /\ ~ResolveRoute(mc, zen_m).found

\* the IDs a listing holds
ListedIDs(list) == {list[i].ID : i \in 1..Len(list)}

\* the keys of the file's pricing_only entries that no other entry shares
PricingOnlyKeys(file) ==
    { ToLower(n) : n \in {x \in DOMAIN file.models :
          /\ file.models[x].pricing_only
          /\ \A y \in DOMAIN file.models \ {x} : ToLower(y) # ToLower(x)} }

\* C28 (checked under SpecReload): ListModels returns exactly the routes that
\* are not hidden, each once, in ascending order of name;
\* ListModelsWithUpstream returns every route, hidden or not, each once and
\* with its upstream model id; a route is missing from ListModels if and only
\* if it is hidden; a pricing_only entry of the loaded file has no route and
\* is in neither listing.
C28_Listings ==
    LET lm == ListModels(mc)
    IN  /\ ListedIDs(lm) = {k \in DOMAIN routes : ~routes[k].hidden}
        /\ \A i \in 1..Len(lm) : \A j \in 1..Len(lm) :
              i < j => StrLess(lm[i].ID, lm[j].ID)
        /\ \A o \in Orders(DOMAIN routes) :
              LET lw == ListModelsWithUpstream(mc, o)
              IN  /\ ListedIDs(lw) = DOMAIN routes
                  /\ Len(lw) = Cardinality(DOMAIN routes)
                  /\ \A i \in 1..Len(lw) :
                        lw[i].Upstream = routes[lw[i].ID].upstreamModel
                  /\ \A k \in ListedIDs(lw) :
                        k \notin ListedIDs(lm) <=> routes[k].hidden
                  /\ \A k \in PricingOnlyKeys(rlNew.file) :
                        /\ k \notin DOMAIN routes
                        /\ k \notin ListedIDs(lm) /\ k \notin ListedIDs(lw)

\* after a Reload the table holds a hidden route next to two visible ones
C28_Witness ==
    /\ reloadCount > 0
    /\ Len(ListModels(mc)) = 2
    /\ \E k \in DOMAIN routes : routes[k].hidden

\* the versioned model a versionless key zen-X stands for: zen4-X when it is
\* configured, failing that zen3-X; << >> when neither is
VersionedOf(c, key) ==
    LET k4 == zen4Dash \o DropPrefix(key, 4)
        k3 == zen3Dash \o DropPrefix(key, 4)
    IN  IF k4 \in DOMAIN c.routes THEN k4
        ELSE IF k3 \in DOMAIN c.routes THEN k3
        ELSE << >>

\* C29 (as claimed): a versionless name zen-X for which zen4-X or, failing
\* that, zen3-X is configured resolves to the upstream model id and to the
\* identity prompt of that versioned name; a zen name that matches no prompt
\* gets the generic zen prompt and a name that is not a zen name and has no
\* prompt gets none.
C29_VersionlessZenAliases ==
    mu.writer = "none" =>
        \A n \in LookupNames :
            LET key == ToLower(n)
                v == VersionedOf(mc, key)
            IN  /\ (HasPrefix(key, zenDash) /\ v # << >>) =>
                      /\ ResolveRoute(mc, n).found
                      /\ ResolveRoute(mc, n).route.upstreamModel
                            = routes[v].upstreamModel
                      /\ GetIdentityPrompt(mc, n) = GetIdentityPrompt(mc, v)
                /\ (/\ HasPrefix(key, zenPrefix)
                    /\ key \notin DOMAIN prompts
                    /\ ~HasPrefix(key, zenDash)) =>
                      GetIdentityPrompt(mc, n) = GenericZenPrompt
                /\ (~HasPrefix(key, zenPrefix) /\ key \notin DOMAIN prompts) =>
                      GetIdentityPrompt(mc, n) = << >>

----------------------------------------------------------------------------
\* Claims about the ZAP endpoint (checked under SpecZap).

\* the id the sender wrote into the body
WrittenID(body) == IF body.id.str THEN body.id.text ELSE ""

\* the body is a JSON text that decodes into a zapRequest
ValidEnvelope(body) == ~Unmarshal(body).err

\* the error routing of ZapDispatch, without the id
ZapErrorCodes ==
    zap.done =>
        /\ zap.body.syntax = "invalid" =>
              /\ zap.resp.kind = "error" /\ zap.resp.code = -32700
              /\ zap.handlers = << >>
        /\ (/\ ValidEnvelope(zap.body)
            /\ zap.body.method.text \notin ZapMethods \cup {""}) =>
              /\ zap.resp.kind = "error" /\ zap.resp.code = -32601
              /\ zap.handlers = << >>
        /\ (ValidEnvelope(zap.body) /\ zap.body.method.text = "") =>
              /\ zap.resp.kind = "error" /\ zap.resp.code = -32600
              /\ zap.handlers = << >>

\* the response of one of the three error cases
ZapRoutingError ==
    /\ zap.done
    /\ zap.resp.kind = "error"
    /\ zap.resp.code \in {-32700, -32601, -32600}

\* C30 (as claimed): a body that is not valid JSON gets -32700; a valid
\* envelope with a method outside the four gets -32601 and no handler runs; an
\* empty method gets -32600; and every such error response carries the id of
\* the request.
C30_ZapErrorRouting ==
    /\ ZapErrorCodes
    /\ ZapRoutingError => zap.resp.id = WrittenID(zap.body)

\* C30 (amended): the same codes; the error response carries the id of the
\* request whenever the body is valid JSON, and the empty id when the body is
\* not valid JSON, whatever id is written in it.
C30_ZapErrorRoutingReadableId ==
    /\ ZapErrorCodes
    /\ ZapRoutingError =>
          zap.resp.id = IF zap.body.syntax = "valid" THEN WrittenID(zap.body) ELSE ""

\* an envelope {"method":"models.delete","id":"req-1"} has been answered with
\* -32601 and the id req-1, and no handler ran
C30_Witness ==
    /\ zap # NoZap
    /\ zap.done
    /\ zap.body = [syntax |-> "valid", method |-> Str("models.delete"),
                   id |-> Str("req-1")]
    /\ zap.resp = respondZapError("req-1", -32601)
    /\ zap.handlers = << >>

\* C31 (as claimed): every dispatch of one of the four methods is answered
\* with an envelope, whatever the delegated handler does: the response body is
\* {id, result} or {id, error} and its id is the id of the request envelope.
C31_EnvelopeResponse ==
    (/\ zap # NoZap
     /\ zap.done
     /\ ValidEnvelope(zap.body)
     /\ zap.body.method.text \in ZapMethods) =>
        /\ zap.resp.kind \in {"result", "error"}
        /\ zap.resp.id = WrittenID(zap.body)

----------------------------------------------------------------------------
\* Claims about the gate and the configuration together (SpecBilling).

\* ModelConfig.StarterCreditDollars(): the configured starter credit, in
\* cents, or 5.00
ConfiguredStarterCredit(f) ==
    IF f.starter_credit > 0 THEN f.starter_credit ELSE 500

\* a well-formed file with a premium route and a starter credit of 10.00
FileCredit ==
    [models |->
        (gpt :> ModelDef("do-ai", "openai-gpt", TRUE, FALSE, "", << >>,
                         << >>, FALSE, PricingIO(250, 1000))),
     default_pricing |-> [input_per_million |-> 0, output_per_million |-> 0],
     features |-> [live_mode |-> FALSE, premium_gate |-> TRUE, starter_credit |-> 1000],
     pricing_url |-> "",
     pricing_ttl |-> ""]

\* the gateway after InitModelConfig has loaded FileCredit
InitCredit ==
    \E c \in ApplyResults(FileCredit) :
        /\ routes = c.routes
        /\ pricing = c.pricing
        /\ prompts = c.prompts
        /\ features = c.features
        /\ defaults = c.defaults
        /\ pricingURL = c.pricingURL
        /\ pricingTTL = c.pricingTTL
        /\ aliasPricingMap = c.aliasPricingMap
        /\ bgRunning = c.features.live_mode
        /\ mcCommitted = Config(c.routes, c.pricing, c.prompts, c.features, c.defaults)
        /\ pricingRefreshed = FALSE
        /\ mu = [writer |-> "none", readers |-> {}]
        /\ rlpc = "idle"
        /\ rlNew = NoTables
        /\ reloadCount = 0
        /\ reloadFile = "none"
        /\ reloadResult = "none"
        /\ fpc = "idle"
        /\ fResp = << >>
        /\ fetchQueued = 0
        /\ rdpc = "idle"
        /\ rdKind = "none"
        /\ rdArg = << >>
        /\ rdResult = NoResult
        /\ rdCands = {}
        /\ req = [r \in Requests |-> IdleRequest]
        /\ balanceCache = EmptyMap
        /\ now = 0
        /\ commerceEndpoint \in {"", "https://commerce.hanzo.ai/"}
        /\ LibIdle

NextCredit ==
    \/ \E r \in Serving : Arrive(r, {jwtAliceFunded}, {GPT}, {"ChatCompletions"})
    \/ \E r \in Serving : AuthJwt(r)
    \/ \E r \in Serving : GateRoute(r)
    \/ \E r \in Serving : GateProvider(r)
    \/ \E r \in Serving : BalanceCacheHit(r)
    \/ \E r \in Serving : BalanceCacheMiss(r)
    \/ \E r \in Serving : CommerceResponds(r)
    \/ \E r \in Serving : BalanceStore(r)
    \/ \E r \in Serving : ReadRoute(r)
    \/ \E r \in Serving : Prepare(r)
    \/ \E r \in Serving : UpstreamReturns(r)
    \/ \E r \in Serving : RecordUsage(r)
    \/ \E r \in Serving : WriteResponse(r)
    \/ \E r \in Serving : UsageStart(r)
    \/ \E r \in Serving : UsagePost(r)
    \/ \E r \in Serving : NextRequest(r)

SpecCredit == InitCredit /\ [][NextCredit]_vars

\* C32 (as claimed): the threshold of the premium gate is the configured
\* starter credit. When resolveProviderForUser decides on a premium route
\* while a loaded configuration is in force (no Reload under way), it rejects
\* the request exactly when the balance is <= features.starter_credit, or
\* <= 5.00 when the file gives no positive value.
C32_ConfiguredThreshold ==
    [][\A r \in Requests :
          (/\ req[r].source = "none" /\ req'[r].source # "none"
           /\ rlpc = "idle"
           /\ req'[r].route.route.premium)
            => (req'[r].gate = "error"
                  <=> req'[r].fetched <= ConfiguredStarterCredit(features))]_vars

----------------------------------------------------------------------------
\* backgroundRefresh as a goroutine, and Stop

MaxTicks == 2
MaxStops == 2

\* InitModelConfig with live_mode set: `go mc.backgroundRefresh()`
InitStop ==
    /\ \E f \in {FileB, FileChain} : \E c \in ApplyResults(f) :
        /\ routes = c.routes
        /\ pricing = c.pricing
        /\ prompts = c.prompts
        /\ features = c.features
        /\ defaults = c.defaults
        /\ pricingURL = c.pricingURL
        /\ pricingTTL = c.pricingTTL
        /\ aliasPricingMap = c.aliasPricingMap
        /\ bgRunning = c.features.live_mode
        /\ mcCommitted = Config(c.routes, c.pricing, c.prompts, c.features, c.defaults)
    /\ pricingRefreshed = FALSE
    /\ mu = [writer |-> "none", readers |-> {}]
    /\ rlpc = "idle"
    /\ rlNew = NoTables
    /\ reloadCount = 0
    /\ reloadFile = "none"
    /\ reloadResult = "none"
    /\ fpc = "idle"
    /\ fResp = << >>
    /\ fetchQueued = 0
    /\ rdpc = "idle"
    /\ rdKind = "none"
    /\ rdArg = << >>
    /\ rdResult = NoResult
    /\ rdCands = {}
    /\ req = [r \in Requests |-> IdleRequest]
    /\ balanceCache = EmptyMap
    /\ now = 0
    /\ commerceEndpoint = ""
    /\ cost = NoCall
    /\ aw = NoWriter
    /\ ks = NoKms
    /\ zap = NoZap
    /\ ip = NoChat
    /\ bg = [pc |-> "start", ticks |-> 0, stops |-> 0, stoppedAt |-> "none"]

TaskFrame ==
    UNCHANGED <<tableVars, mu, reloadVars, fetchVars, readerVars, mcCommitted,
                req, balanceCache, now, commerceEndpoint, cost, aw, ks, zap, ip>>

\* mc.mu.RLock(); ttl := mc.pricingTTL; mc.mu.RUnlock(); then the call of
\* mc.fetchLivePricing() that precedes the loop
BgFirstFetch ==
    /\ bg # NoTask
    /\ bg.pc = "start"
    /\ ReadLockFree(mu)
    /\ bg' = [bg EXCEPT !.pc = "fetch"]
    /\ fetchQueued' = fetchQueued + 1
    /\ UNCHANGED bgRunning
    /\ TaskFrame

\* mc.fetchLivePricing() returns; the goroutine parks in the select
BgFetchReturns ==
    /\ bg # NoTask
    /\ bg.pc = "fetch"
    /\ fpc = "idle"
    /\ fetchQueued = 0
    /\ bg' = [bg EXCEPT !.pc = "select"]
    /\ UNCHANGED <<fetchQueued, bgRunning>>
    /\ TaskFrame

\* case <-ticker.C: mc.fetchLivePricing()
BgTicker ==
    /\ bg # NoTask
    /\ bg.pc = "select"
    /\ bg.ticks < MaxTicks
    /\ bg' = [bg EXCEPT !.pc = "fetch", !.ticks = @ + 1]
    /\ fetchQueued' = fetchQueued + 1
    /\ UNCHANGED bgRunning
    /\ TaskFrame

\* where the goroutine was when Stop was first called
StoppedAt(t) == IF t.stoppedAt = "none" THEN t.pc ELSE t.stoppedAt

\* Stop: a send on the unbuffered mc.stopCh inside a select with a default
\* case. The send goes through only when the goroutine is parked in its
\* select, which then takes `case <-mc.stopCh: return`; at any other time
\* the default case is taken and nothing is sent.
Stop ==
    /\ bg # NoTask
    /\ bg.stops < MaxStops
    /\ IF bg.pc = "select"
       THEN /\ bg' = [bg EXCEPT !.pc = "exited", !.stops = @ + 1,
                                !.stoppedAt = StoppedAt(bg)]
            /\ bgRunning' = FALSE
       ELSE /\ bg' = [bg EXCEPT !.stops = @ + 1, !.stoppedAt = StoppedAt(bg)]
            /\ UNCHANGED bgRunning
    /\ UNCHANGED fetchQueued
    /\ TaskFrame

TaskStep ==
    \/ BgFirstFetch
    \/ BgFetchReturns
    \/ FetchStart
    \/ FetchGet
    \/ FetchLock
    \/ FetchMerge
    \/ FetchUnlock

NextStop == TaskStep \/ BgTicker \/ Stop

SpecStop == InitStop /\ [][NextStop]_vars

\* the goroutine and the fetch it is in keep running; nothing is assumed of
\* the ticker or of the callers of Stop
SpecStopLive == SpecStop /\ WF_vars(TaskStep)

\* C33 (as claimed): Stop is effective. Once a call of Stop has returned, the
\* backgroundRefresh goroutine eventually exits, and it begins no fetch
\* after that return, whether it was waiting on its ticker or inside a fetch
\* when Stop was called.
C33_StopEffective ==
    /\ (bg.stoppedAt \in {"select", "fetch"} ~> bg.pc = "exited")
    /\ [][(bg.stoppedAt \in {"select", "fetch"} /\ bg.pc # "fetch")
              => bg'.pc # "fetch"]_vars

----------------------------------------------------------------------------
\* Further claims about the AnthropicWriter (checked under SpecWriter).

\* the positions of the frames of one event on the wire
FramesOf(w, event) == {i \in 1..Len(w.wire) : w.wire[i].event = event}

\* C34 (as claimed): a streaming response is always well formed. Whatever
\* was written, every content_block_delta on the wire comes after a
\* message_start and a content_block_start, and once Close has returned
\* without error the wire holds exactly one message_stop, as its last
\* event, also when no chunk with content was ever written.
C34_WellFormedStream ==
    (aw # NoWriter /\ aw.Stream) =>
        /\ \A i \in FramesOf(aw, "content_block_delta") :
              \E j \in FramesOf(aw, "message_start") :
                 \E k \in FramesOf(aw, "content_block_start") : j < k /\ k < i
        /\ (aw.closed /\ ~aw.closeErr) =>
              /\ Cardinality(FramesOf(aw, "message_stop")) = 1
              /\ aw.wire[Len(aw.wire)].event = "message_stop"

\* the writer a non-streaming response has after the same chunks, the
\* Cleaner leaving of each bare chunk what it left here
RECURSIVE Replay(_, _)
Replay(w, entries) ==
    IF entries = << >> THEN w
    ELSE Replay(WriterWriteResult(w, Head(entries).chunk, Head(entries).content, 0),
                Tail(entries))

IsDelta(f) == f.event = "content_block_delta"

\* the text of the content_block_delta frames on the wire, in order
DeltaText(w) ==
    LET deltas == SelectSeq(w.wire, IsDelta)
    IN  Flatten([i \in 1..Len(deltas) |-> deltas[i].text])

\* C37 (as claimed): streaming and buffered modes carry the same text. For
\* every sequence of chunks (bare, in the message envelope, in the reason
\* envelope) written to a streaming writer whose connection takes every
\* write, the concatenation of the text of the content_block_delta frames
\* is what MessageString() gives after the same chunks without streaming.
C37_SameTextInBothModes ==
    (aw # NoWriter /\ aw.Stream /\ ~aw.writeFailed) =>
        DeltaText(aw) = MessageString(Replay(NewWriter(FALSE), aw.written))

----------------------------------------------------------------------------
\* Further claims about the handler and a concurrent Reload (SpecBilling).

\* C35 (as claimed): within one request the premium flag is consistent. The
\* premium flag written into the usage record of a request is the premium
\* flag of the route on which its balance gate decided, whatever Reload
\* does meanwhile.
C35_PremiumFlagConsistent ==
    \A r \in Requests :
        (req[r].usageCalls > 0 /\ req[r].gate = "ok")
            => req[r].usage.Premium = req[r].route.route.premium

----------------------------------------------------------------------------
\* Further claims about the KMS client (checked under SpecKms).

\* the three secret fields of a provider, in the order they are resolved
SecretFields(pv) == <<pv.ClientSecret, pv.UserKey, pv.SignKey>>

IsRef(value) == HasPrefix(value, kmsScheme)

\* how many of the first n fields are kms:// references
RefsUpTo(pv, n) == Cardinality({j \in 1..n : IsRef(SecretFields(pv)[j])})

\* C38: ResolveProviderSecret is all-or-nothing. If resolving a field fails
\* (an empty kms:// reference, no access token, an error of the store) it
\* returns an error and the provider's fields are as they were. If it
\* succeeds with KMS configured, every kms:// field holds the value
\* getSecret returned for its name and every other field is unchanged.
\* With KMS not configured, or no kms:// field, it returns the provider
\* unchanged without error and without a getSecret or store call.
C38_AllOrNothing ==
    (ks # NoKms /\ ks.pc = "returned") =>
        LET given == ProviderFields(ks.given)
            before == SecretFields(given)
            after == SecretFields(ks.provider)
        IN  /\ ks.err => ks.provider = given
            /\ (\E i \in 1..Len(ks.asked) : ks.asked[i].err) => ks.err
            /\ (ks.configured /\ \E j \in 1..3 : before[j] = kmsScheme) => ks.err
            /\ (~ks.configured \/ ~HasRef(ks.given)) =>
                  /\ ~ks.err
                  /\ ks.provider = given
                  /\ ks.asked = << >> /\ ks.gets = << >>
            /\ (~ks.err /\ ks.configured /\ HasRef(ks.given)) =>
                  /\ ks.provider.ConfigText = given.ConfigText
                  /\ Len(ks.asked) = RefsUpTo(given, 3)
                  /\ \A j \in 1..3 :
                        IF IsRef(before[j])
                        THEN LET e == ks.asked[RefsUpTo(given, j)]
                             IN  /\ e.name = TrimPrefix(before[j], kmsScheme)
                                 /\ ~e.err
                                 /\ after[j] = e.value
                        ELSE after[j] = before[j]

\* the first reference was resolved and the second failed: the provider is
\* as it was given
C38_Witness ==
    /\ ks # NoKms
    /\ ks.pc = "returned"
    /\ ks.err
    /\ Len(ks.asked) = 2
    /\ ~ks.asked[1].err
    /\ ks.asked[2].err
    /\ ks.provider = ProviderFields(ks.given)
    /\ IsRef(ks.provider.ClientSecret)

----------------------------------------------------------------------------
\* Further claims about the balance cache (checked under SpecBalance).

\* Concurrent getUserBalance calls seen with a clock of seconds: a call of
\* the balance service takes time (up to its 10 s timeout), so the answers
\* to two calls in flight are produced at different moments.
MaxCallSeconds == 2

SecondPasses ==
    /\ \E r \in Requests : req[r].pc \in {"commerce_call", "store"}
    /\ now < MaxCallSeconds
    /\ now' = now + 1
    /\ UNCHANGED <<cfgVars, req, balanceCache, commerceEndpoint, libVars>>

NextRace ==
    \/ \E r \in Requests :
          Arrive(r, {jwtAliceFunded, jwtAliceEmpty}, {GPT}, {"ChatCompletions"})
    \/ \E r \in Requests : AuthJwt(r)
    \/ \E r \in Requests : GateRoute(r)
    \/ \E r \in Requests : GateProvider(r)
    \/ \E r \in Requests : BalanceCacheHit(r)
    \/ \E r \in Requests : BalanceCacheMiss(r)
    \/ \E r \in Requests : CommerceResponds(r)
    \/ \E r \in Requests : BalanceStore(r)
    \/ SecondPasses

SpecRace == InitGateway /\ [][NextRace]_vars

\* C36 (as claimed): the balance cache never regresses. Whatever the
\* interleaving of the getUserBalance calls for one user, no step replaces
\* a cached balance by one the balance service produced earlier: the entry
\* of a user always holds the latest response obtained so far.
C36_CacheNeverRegresses ==
    [][\A k \in DOMAIN balanceCache :
          /\ k \in DOMAIN balanceCache'
          /\ balanceCache'[k].obtainedAt >= balanceCache[k].obtainedAt]_vars

----------------------------------------------------------------------------
\* Identity injection and message extraction in ChatCompletions
\* (src/controllers/openai_api.go:439-479) and AnthropicMessages
\* (src/unnamed/part_015:373-432). Message contents are character sequences.

MaxMessages == 3

Message(role, content) == [Role |-> role, Content |-> content]

ChatMessages ==
    {Message(role, content) : role \in {"system", "user", "assistant"},
                              content \in {<<"a">>, <<"b">>}}

RECURSIVE ListsUpTo(_)
ListsUpTo(n) ==
    IF n = 0 THEN {<< >>}
    ELSE LET shorter == ListsUpTo(n - 1)
         IN  shorter \cup {Append(l, m) : l \in shorter, m \in ChatMessages}

\* zenIdentityPrompt(model) with the model configuration initialised
zenIdentityPrompt(model) == GetIdentityPrompt(mc, model)

\* oaiMessages of AnthropicMessages: request.System, when set, as a leading
\* system message, then request.Messages
oaiMessages(system, messages) ==
    IF system # << >> THEN <<Message("system", system)>> \o messages ELSE messages

\* the injection: the prompt goes in front of the text of a leading system
\* message, or becomes a new leading system message
InjectIdentity(zenPrompt, messages) ==
    IF zenPrompt = << >> THEN messages
    ELSE IF Len(messages) > 0 /\ messages[1].Role = "system"
    THEN [messages EXCEPT ![1].Content = zenPrompt \o <<"\n", "\n">> \o @]
    ELSE <<Message("system", zenPrompt)>> \o messages

\* `for _, msg := range messages { switch msg.Role { case r: v = msg.Content`:
\* the content of the last message of the role, "" without one
RECURSIVE LastOf(_, _)
LastOf(messages, role) ==
    IF messages = << >> THEN << >>
    ELSE IF messages[Len(messages)].Role = role THEN messages[Len(messages)].Content
    ELSE LastOf(SubSeq(messages, 1, Len(messages) - 1), role)

\* fmt.Sprintf("System: %s\n\nUser: %s", systemPrompt, question)
Combine(systemPrompt, question) ==
    IF systemPrompt = << >> THEN question
    ELSE <<"S","y","s","t","e","m",":"," ">> \o systemPrompt
            \o <<"\n","\n","U","s","e","r",":"," ">> \o question

\* what the handler makes of the request's messages: the error for a
\* request without user text, or the question it sends upstream
BuildQuestionResult(handler, model, system, messages) ==
    LET given == IF handler = "AnthropicMessages" THEN oaiMessages(system, messages)
                 ELSE messages
        injected == InjectIdentity(zenIdentityPrompt(model), given)
        systemPrompt == LastOf(injected, "system")
        question == LastOf(injected, "user")
    IN  IF question = << >>
        THEN [sent |-> "error", systemPrompt |-> systemPrompt, question |-> << >>]
        ELSE [sent |-> "ok", systemPrompt |-> systemPrompt,
              question |-> Combine(systemPrompt, question)]

InitChat ==
    /\ GatewayStart
    /\ cost = NoCall
    /\ aw = NoWriter
    /\ ks = NoKms
    /\ zap = NoZap
    /\ bg = NoTask
    /\ \E handler \in {"ChatCompletions", "AnthropicMessages"},
          model \in {zen4_m, zen_m, GPT},
          system \in {<< >>, <<"s">>},
          messages \in ListsUpTo(MaxMessages) :
         /\ handler = "ChatCompletions" => system = << >>
         /\ ip = [handler |-> handler, model |-> model, system |-> system,
                  messages |-> messages, sent |-> "none",
                  systemPrompt |-> << >>, question |-> << >>]

BuildQuestion ==
    /\ ip # NoChat
    /\ ip.sent = "none"
    /\ LET r == BuildQuestionResult(ip.handler, ip.model, ip.system, ip.messages)
       IN  ip' = [ip EXCEPT !.sent = r.sent, !.systemPrompt = r.systemPrompt,
                            !.question = r.question]
    /\ UNCHANGED <<cfgVars, req, balanceCache, now, commerceEndpoint, cost, aw, ks,
                   zap, bg>>

NextChat == BuildQuestion

SpecChat == InitChat /\ [][NextChat]_vars

\* sub occurs in str
Contains(str, sub) ==
    \E i \in 0..(Len(str) - Len(sub)) : SubSeq(str, i + 1, i + Len(sub)) = sub

\* C39 (as claimed): the identity prompt always reaches the upstream model.
\* For every request to a model with a non-empty identity prompt, whatever
\* system messages its message list has and wherever they stand, the system
\* text combined into the question sent upstream contains the prompt.
C39_IdentityPromptReachesUpstream ==
    (/\ ip # NoChat
     /\ ip.sent = "ok"
     /\ zenIdentityPrompt(ip.model) # << >>) =>
        /\ Contains(ip.systemPrompt, zenIdentityPrompt(ip.model))
        /\ Contains(ip.question, zenIdentityPrompt(ip.model))

----------------------------------------------------------------------------
\* Further claims about ZAP (checked under SpecZap).

\* the credential is an IAM key or a JWT of this user
AuthenticatesAs(token, userId) ==
    \/ /\ token # << >>
       /\ isIAMApiKey(token)
       /\ \E l \in getUserByAccessKey(token) :
             ~l.err /\ l.user # NilUser /\ UserKey(l.user) = userId
    \/ /\ token # << >>
       /\ isJwtToken(token)
       /\ ~ParseJwtToken(token).err
       /\ UserKey(ParseJwtToken(token).user) = userId

\* C40 (as claimed): billing.balance discloses a balance only to its owner.
\* A result carrying the balance of user U is written only when the
\* request's credential authenticates as U; naming a user in params without
\* a credential, or with the credential of another user, gets an error.
C40_BalanceOnlyToOwner ==
    (/\ zap # NoZap /\ zap.done
     /\ zap.resp.kind = "result"
     /\ zap.resp.user # << >>) =>
        AuthenticatesAs(zap.token, zap.resp.user)

====
